---- MODULE Spec2Model ----
(***************************************************************************)
(* A model of the trend aggregation and token-configuration engine of      *)
(* ViralCoin (src/ai/trend_analyzer.py).                                   *)
(*                                                                         *)
(* Strings are sequences of one-character strings, so that lower(), the    *)
(* substring test `k in s`, split(), capitalize() and slicing are          *)
(* computed character by character as Python computes them.               *)
(*                                                                         *)
(* Percentages are kept in hundredths of a percent (2.0% is 200, 0.05% is  *)
(* 5) and the supply multipliers in tenths (0.1 is 1, 10 is 100), so every *)
(* table value of the source is an exact integer here.  Token supplies are *)
(* counted in thousands of tokens: 10^10 tokens do not fit TLC's 32-bit    *)
(* integers.  Keyword weights are in tenths and trend scores in fortieths.  *)
(* Time is in whole seconds.                                               *)
(*                                                                         *)
(* The module holds four specifications over one set of variables:         *)
(*   SpecDerive         classification of a topic and derivation of a      *)
(*                      token configuration from it;                       *)
(*   SpecAggregate      keyword extraction, scoring and ranking of given   *)
(*                      trend records;                                     *)
(*   SpecFetch          the four source adapters of one analyzer, called   *)
(*                      by concurrent callers while time passes;           *)
(*   SpecAnalyzeTrends  analyze_trends, run by one caller, with upstream   *)
(*                      calls that may raise.                              *)
(* The adapters share no lock, so each read and write of the analyzer's    *)
(* fields is a step of its own.                                            *)
(***************************************************************************)
EXTENDS Integers, Sequences, FiniteSets, TLC

(***************************************************************************)
(* Python string primitives                                                *)
(***************************************************************************)
LowerLetters ==
  <<"a","b","c","d","e","f","g","h","i","j","k","l","m","n","o","p","q","r","s","t","u","v","w","x","y","z">>

UpperLetters ==
  <<"A","B","C","D","E","F","G","H","I","J","K","L","M","N","O","P","Q","R","S","T","U","V","W","X","Y","Z">>

Digits ==
  <<"0","1","2","3","4","5","6","7","8","9">>

Range(s) == {s[i] : i \in DOMAIN s}

IsLower(c) == c \in Range(LowerLetters)

IsUpper(c) == c \in Range(UpperLetters)

IsDigit(c) == c \in Range(Digits)

IsSpace(c) == c = " "

\* the character class [a-zA-Z0-9\s] of re.sub in _generate_token_name
IsAlnumOrSpace(c) == IsLower(c) \/ IsUpper(c) \/ IsDigit(c) \/ IsSpace(c)

IndexIn(c, s) == CHOOSE i \in DOMAIN s : s[i] = c

lower_char(c) == IF IsUpper(c) THEN LowerLetters[IndexIn(c, UpperLetters)] ELSE c

upper_char(c) == IF IsLower(c) THEN UpperLetters[IndexIn(c, LowerLetters)] ELSE c

\* str.lower(), built as a new string
lower(s) == <<>> \o [i \in DOMAIN s |-> lower_char(s[i])]

\* str.upper(), built as a new string
upper(s) == <<>> \o [i \in DOMAIN s |-> upper_char(s[i])]

\* the Python test `k in s` on strings
contains(k, s) ==
  \E i \in 1..(Len(s) - Len(k) + 1) : \A j \in 1..Len(k) : s[i + j - 1] = k[j]

\* str.strip()
strip(s) ==
  LET keep == {i \in DOMAIN s : ~IsSpace(s[i])}
  IN  IF keep = {} THEN <<>>
      ELSE SubSeq(s, CHOOSE i \in keep : \A j \in keep : i <= j,
                     CHOOSE i \in keep : \A j \in keep : i >= j)

\* the end of the whitespace-free run that starts at position i
WordEnd(s, i) ==
  CHOOSE j \in i..Len(s) :
    /\ j = Len(s) \/ IsSpace(s[j + 1])
    /\ \A k \in i..j : ~IsSpace(s[k])

RECURSIVE split_from(_, _)
split_from(s, i) ==
  IF i > Len(s) THEN <<>>
  ELSE IF IsSpace(s[i]) THEN split_from(s, i + 1)
  ELSE LET j == WordEnd(s, i)
       IN  <<SubSeq(s, i, j)>> \o split_from(s, j + 1)

\* str.split() with no argument: the whitespace-free runs, none empty
split(s) == split_from(s, 1)

\* str.capitalize(): first character upper-cased, the rest lower-cased
capitalize(w) ==
  [i \in DOMAIN w |-> IF i = 1 THEN upper_char(w[i]) ELSE lower_char(w[i])]

RECURSIVE join(_, _)
\* sep.join(words)
join(sep, words) ==
  IF words = <<>> THEN <<>>
  ELSE IF Len(words) = 1 THEN words[1]
  ELSE words[1] \o sep \o join(sep, Tail(words))

\* s[:n]
Prefix(s, n) == SubSeq(s, 1, IF n < Len(s) THEN n ELSE Len(s))

\* dict.get(key, default)
Get(d, key, default) == IF key \in DOMAIN d THEN d[key] ELSE default

(***************************************************************************)
(* Category classifier: _get_trend_category                                *)
(***************************************************************************)
\* the `categories` dict, in its insertion order
categories ==
  <<
     [category |-> "crypto", keywords |->
       << <<"b","i","t","c","o","i","n">>,
          <<"e","t","h","e","r","e","u","m">>,
          <<"c","r","y","p","t","o">>,
          <<"b","l","o","c","k","c","h","a","i","n">>,
          <<"n","f","t">>,
          <<"d","e","f","i">>,
          <<"w","e","b","3">> >> ],
     [category |-> "meme", keywords |->
       << <<"m","e","m","e">>,
          <<"v","i","r","a","l">>,
          <<"f","u","n","n","y">>,
          <<"j","o","k","e">>,
          <<"l","o","l">>,
          <<"t","r","e","n","d","i","n","g">> >> ],
     [category |-> "tech", keywords |->
       << <<"a","i">>,
          <<"a","r","t","i","f","i","c","i","a","l">>,
          <<"t","e","c","h","n","o","l","o","g","y">>,
          <<"s","o","f","t","w","a","r","e">>,
          <<"h","a","r","d","w","a","r","e">>,
          <<"a","p","p">>,
          <<"d","i","g","i","t","a","l">> >> ],
     [category |-> "finance", keywords |->
       << <<"m","a","r","k","e","t">>,
          <<"s","t","o","c","k">>,
          <<"i","n","v","e","s","t">>,
          <<"t","r","a","d","i","n","g">>,
          <<"f","i","n","a","n","c","e">>,
          <<"e","c","o","n","o","m","i","c">> >> ],
     [category |-> "entertainment", keywords |->
       << <<"m","o","v","i","e">>,
          <<"m","u","s","i","c">>,
          <<"c","e","l","e","b","r","i","t","y">>,
          <<"g","a","m","e">>,
          <<"p","l","a","y">>,
          <<"s","t","r","e","a","m">>,
          <<"s","h","o","w">>,
          <<"a","c","t","o","r">>,
          <<"s","o","n","g">> >> ]
  >>

\* a classifier that falls back on the length of the keyword
get_trend_category_length_fallback(keyword) ==
  LET hit == {i \in DOMAIN categories :
                \E n \in DOMAIN categories[i].keywords :
                  contains(categories[i].keywords[n], lower(keyword))}
  IN  IF hit = {} THEN (IF Len(keyword) < 6 THEN "meme" ELSE "other")
      ELSE categories[CHOOSE i \in hit : \A j \in hit : i <= j].category

\* a classifier that has no fallback category
get_trend_category_unclassifiable(keyword) ==
  LET hit == {i \in DOMAIN categories :
                \E n \in DOMAIN categories[i].keywords :
                  contains(categories[i].keywords[n], lower(keyword))}
  IN  IF hit = {} THEN "unclassifiable"
      ELSE categories[CHOOSE i \in hit : \A j \in hit : i <= j].category

\* a classifier that lets the last matching category win
get_trend_category_last_match(keyword) ==
  LET hit == {i \in DOMAIN categories :
                \E n \in DOMAIN categories[i].keywords :
                  contains(categories[i].keywords[n], lower(keyword))}
  IN  IF hit = {} THEN "other"
      ELSE categories[CHOOSE i \in hit : \A j \in hit : i >= j].category

\* the loop over categories.items() with its early return, then 'other'
get_trend_category(keyword) ==
  LET hit == {i \in DOMAIN categories :
                \E n \in DOMAIN categories[i].keywords :
                  contains(categories[i].keywords[n], lower(keyword))}
  IN  IF hit = {} THEN "other"
      ELSE categories[CHOOSE i \in hit : \A j \in hit : i <= j].category

(***************************************************************************)
(* Archetype classifier: _classify_trend_type                              *)
(***************************************************************************)
meme_keywords ==
  << <<"m","e","m","e">>,
       <<"d","o","g","e">>,
       <<"s","h","i","b">>,
       <<"m","o","o","n">>,
       <<"e","l","o","n">>,
       <<"p","e","p","e">>,
       <<"w","o","j","a","k">>,
       <<"c","h","a","d">>,
       <<"i","n","u">>,
       <<"c","a","t">>,
       <<"s","a","f","e">>,
       <<"m","o","o","n">>,
       <<"f","o","o","d">>,
       <<"b","a","b","y">>,
       <<"f","u","n","n","y">>,
       <<"j","o","k","e">>,
       <<"l","o","l">>,
       <<"w","o","w">>,
       <<"p","u","m","p">> >>

utility_keywords ==
  << <<"d","e","f","i">>,
       <<"s","w","a","p">>,
       <<"c","h","a","i","n">>,
       <<"f","i","n","a","n","c","e">>,
       <<"e","x","c","h","a","n","g","e">>,
       <<"p","r","o","t","o","c","o","l">>,
       <<"d","a","o">>,
       <<"g","o","v","e","r","n","a","n","c","e">>,
       <<"s","t","a","k","e">>,
       <<"y","i","e","l","d">>,
       <<"f","a","r","m">>,
       <<"n","f","t">>,
       <<"m","e","t","a","v","e","r","s","e">>,
       <<"g","a","m","e">>,
       <<"p","l","a","y">>,
       <<"e","a","r","n">>,
       <<"w","e","b","3">>,
       <<"a","i">>,
       <<"s","m","a","r","t">> >>

\* a variant of _classify_trend_type that checks the utility keywords first
classify_trend_type_utility_first(trend_name) ==
  LET normalized_name == lower(trend_name)
  IN  IF \E n \in DOMAIN utility_keywords :
           contains(utility_keywords[n], normalized_name)
        THEN "utility"
      ELSE IF \E n \in DOMAIN meme_keywords : contains(meme_keywords[n], normalized_name)
        THEN "memecoin"
      ELSE IF Len(normalized_name) < 6 THEN "memecoin"
      ELSE "utility"

classify_trend_type(trend_name) ==
  LET normalized_name == lower(trend_name)
  IN  IF \E n \in DOMAIN meme_keywords : contains(meme_keywords[n], normalized_name)
        THEN "memecoin"
      ELSE IF \E n \in DOMAIN utility_keywords :
                contains(utility_keywords[n], normalized_name)
        THEN "utility"
      ELSE IF Len(normalized_name) < 6 THEN "memecoin"
      ELSE "utility"

(***************************************************************************)
(* Token configuration derivation                                          *)
(***************************************************************************)
suffixes ==
  << <<"C","o","i","n">>,
       <<"T","o","k","e","n">>,
       <<"F","i","n","a","n","c","e">>,
       <<"C","a","s","h">>,
       <<"M","o","n","e","y">> >>

\* a variant of _generate_token_name that never appends a suffix
generate_token_name_no_suffix(trend_keyword, suffix) ==
  LET clean_keyword == strip(SelectSeq(trend_keyword, IsAlnumOrSpace))
      words == split(clean_keyword)
  IN  join(<<" ">>, [i \in DOMAIN words |-> capitalize(words[i])])

\* a variant of _generate_token_name that also appends a suffix to a cleaned
\* topic of exactly 5 characters
generate_token_name_up_to_five(trend_keyword, suffix) ==
  LET clean_keyword == strip(SelectSeq(trend_keyword, IsAlnumOrSpace))
      words == split(clean_keyword)
      capitalized == join(<<" ">>, [i \in DOMAIN words |-> capitalize(words[i])])
  IN  IF Len(capitalized) <= 5 THEN capitalized \o <<" ">> \o suffix
      ELSE capitalized

\* _generate_token_name; suffix is the value random.choice(suffixes) returns
generate_token_name(trend_keyword, suffix) ==
  LET clean_keyword == strip(SelectSeq(trend_keyword, IsAlnumOrSpace))
      words == split(clean_keyword)
      capitalized == join(<<" ">>, [i \in DOMAIN words |-> capitalize(words[i])])
  IN  IF Len(capitalized) < 5 THEN capitalized \o <<" ">> \o suffix
      ELSE capitalized

\* what name.split()[0] raises when the name has no word
IndexError == <<"IndexError">>

\* _generate_token_symbol
generate_token_symbol(name) ==
  LET words == split(name)
      initials == [i \in DOMAIN words |-> words[i][1]]
  IN  IF Len(initials) < 3
        THEN IF words = <<>> THEN IndexError
             ELSE upper(Prefix(words[1], IF 4 < Len(words[1]) THEN 4 ELSE Len(words[1])))
      ELSE upper(Prefix(initials, 4))

\* a supply table whose meme row is keyed by the archetype label
determine_initial_supply_memecoin_key(category) ==
  LET base_supply == 1000000
      category_multipliers ==
        [crypto |-> 1, memecoin |-> 100, tech |-> 5, finance |-> 2,
         entertainment |-> 50, other |-> 10]
  IN  (base_supply * Get(category_multipliers, category, 10)) \div 10

\* _determine_initial_supply: int(base_supply * multiplier); the supply is counted
\* in thousands of tokens (TLC's integers are 32 bits wide and the meme supply is
\* 10^10), the multipliers in tenths
determine_initial_supply(category) ==
  LET base_supply == 1000000
      category_multipliers ==
        [crypto |-> 1, meme |-> 100, tech |-> 5, finance |-> 2,
         entertainment |-> 50, other |-> 10]
  IN  (base_supply * Get(category_multipliers, category, 10)) \div 10

\* _determine_tax_fee
determine_tax_fee(category) ==
  LET base_fee == 200
      category_adjustments ==
        [crypto |-> 100, meme |-> 200, tech |-> 50, finance |-> 0,
         entertainment |-> 150, other |-> 0]
  IN  base_fee + Get(category_adjustments, category, 0)

\* a liquidity fee whose finance adjustment lost its sign
determine_liquidity_fee_unsigned(category) ==
  LET base_fee == 300
      category_adjustments ==
        [crypto |-> 100, meme |-> 200, tech |-> 0, finance |-> 50,
         entertainment |-> 150, other |-> 0]
  IN  base_fee + Get(category_adjustments, category, 0)

\* _determine_liquidity_fee
determine_liquidity_fee(category) ==
  LET base_fee == 300
      category_adjustments ==
        [crypto |-> 100, meme |-> 200, tech |-> 0, finance |-> -50,
         entertainment |-> 150, other |-> 0]
  IN  base_fee + Get(category_adjustments, category, 0)

\* _determine_marketing_fee
determine_marketing_fee(category) ==
  LET base_fee == 200
      category_adjustments ==
        [crypto |-> 100, meme |-> 300, tech |-> 100, finance |-> 50,
         entertainment |-> 200, other |-> 100]
  IN  base_fee + Get(category_adjustments, category, 0)

\* _determine_max_wallet_size
determine_max_wallet_size(category) ==
  LET base_percentage == 200
      category_adjustments ==
        [crypto |-> 0, meme |-> -50, tech |-> 100, finance |-> 150,
         entertainment |-> -75, other |-> 0]
  IN  base_percentage + Get(category_adjustments, category, 0)

\* _determine_max_transaction_amount
determine_max_transaction_amount(category) ==
  LET base_percentage == 100
      category_adjustments ==
        [crypto |-> 50, meme |-> -25, tech |-> 50, finance |-> 75,
         entertainment |-> -40, other |-> 0]
  IN  base_percentage + Get(category_adjustments, category, 0)

\* _determine_swap_threshold
determine_swap_threshold(category) ==
  LET base_percentage == 10
      category_adjustments ==
        [crypto |-> 5, meme |-> 10, tech |-> 2, finance |-> 3,
         entertainment |-> 8, other |-> 0]
  IN  base_percentage + Get(category_adjustments, category, 0)

DescriptionPrefix ==
  <<"T","o","k","e","n"," ","b","a","s","e","d"," ","o","n"," ","t","r","e","n","d","i","n","g"," ","t","o","p","i","c",":"," ">>

\* _generate_token_config
generate_token_config(trend_keyword, trend_category, suffix) ==
  LET name == generate_token_name(trend_keyword, suffix)
      symbol == generate_token_symbol(name)
  IN  [name |-> name,
       symbol |-> symbol,
       description |-> DescriptionPrefix \o trend_keyword,
       initialSupply |-> determine_initial_supply(trend_category),
       taxFee |-> determine_tax_fee(trend_category),
       liquidityFee |-> determine_liquidity_fee(trend_category),
       marketingFee |-> determine_marketing_fee(trend_category),
       maxWalletSize |-> determine_max_wallet_size(trend_category),
       maxTransactionAmount |-> determine_max_transaction_amount(trend_category),
       swapThreshold |-> determine_swap_threshold(trend_category)]

\* suggest_token_configuration called with a trend keyword
suggest_token_configuration(trend_keyword, suffix) ==
  generate_token_config(trend_keyword, get_trend_category(trend_keyword), suffix)

\* generate_token_details; market_cap and initial_liquidity in dollars, for
\* integer scores
generate_token_details(trend_name, trend_score, suffix) ==
  LET trend_type == classify_trend_type(trend_name)
      token_name == generate_token_name(trend_name, suffix)
      token_symbol == generate_token_symbol(token_name)
      market_cap == 10000 * (100 + trend_score)
  IN  [name |-> token_name,
       symbol |-> token_symbol,
       trend_score |-> trend_score,
       tokenomics_type |-> trend_type,
       market_cap |-> market_cap,
       initial_liquidity |-> market_cap \div 5,
       initial_supply |-> determine_initial_supply(trend_type),
       description |-> DescriptionPrefix \o trend_name]

(***************************************************************************)
(* Trend records                                                           *)
(*                                                                         *)
(* A trend is a Python dict: here the sequence of its items in insertion   *)
(* order, each item a key with a string or an integer value.               *)
(***************************************************************************)
StrItem(key, val) == [key |-> key, type |-> "str", val |-> val]

IntItem(key, val) == [key |-> key, type |-> "int", val |-> val]

\* trend.get(key, default)
dict_get(trend, key, default) ==
  IF \E i \in DOMAIN trend : trend[i].key = key
    THEN trend[CHOOSE i \in DOMAIN trend : trend[i].key = key].val
  ELSE default

RECURSIVE digits_of(_)
digits_of(n) ==
  IF n < 10 THEN <<Digits[n + 1]>>
  ELSE digits_of(n \div 10) \o <<Digits[(n % 10) + 1]>>

\* str(n) of an integer
int_str(n) == IF n < 0 THEN <<"-">> \o digits_of(0 - n) ELSE digits_of(n)

\* repr of a dict value; the strings of the model hold no quote
str_value(item) ==
  IF item.type = "str" THEN <<"'">> \o item.val \o <<"'">> ELSE int_str(item.val)

\* str(trend) of a dict
str_trend(trend) ==
  <<"{">>
  \o join(<<",", " ">>,
          [i \in DOMAIN trend |->
             <<"'">> \o trend[i].key \o <<"'", ":", " ">> \o str_value(trend[i])])
  \o <<"}">>

KeyName ==
  <<"n","a","m","e">>

KeyTitle ==
  <<"t","i","t","l","e">>

KeyTerm ==
  <<"t","e","r","m">>

KeyScore ==
  <<"s","c","o","r","e">>

KeyTweetVolume ==
  <<"t","w","e","e","t","_","v","o","l","u","m","e">>

KeyUrl ==
  <<"u","r","l">>

KeySubreddit ==
  <<"s","u","b","r","e","d","d","i","t">>

KeySource ==
  <<"s","o","u","r","c","e">>

KeyPublishedDate ==
  <<"p","u","b","l","i","s","h","e","d","_","d","a","t","e">>

(***************************************************************************)
(* Keyword extraction: _extract_keywords                                   *)
(*                                                                         *)
(* The keywords dict is the sequence of its items in insertion order; the  *)
(* weights are in tenths (Twitter 3 is 30, a title word 2 is 20, a Google  *)
(* score/10 is the score itself).                                          *)
(***************************************************************************)
\* keywords[k] = keywords.get(k, 0) + w
dict_add(d, k, w) ==
  IF \E i \in DOMAIN d : d[i].k = k
    THEN LET i == CHOOSE i \in DOMAIN d : d[i].k = k
         IN  [d EXCEPT ![i].v = @ + w]
  ELSE Append(d, [k |-> k, v |-> w])

NotHash(c) == c # "#"

\* the class \w of the regular expression, on ASCII
IsWordChar(c) == IsLower(c) \/ IsUpper(c) \/ IsDigit(c) \/ c = "_"

\* the end of the run of word characters that starts at position i
RunEnd(s, i) ==
  CHOOSE j \in i..Len(s) :
    /\ j = Len(s) \/ ~IsWordChar(s[j + 1])
    /\ \A k \in i..j : IsWordChar(s[k])

RECURSIVE findall_from(_, _)
findall_from(s, i) ==
  IF i > Len(s) THEN <<>>
  ELSE IF ~IsWordChar(s[i]) THEN findall_from(s, i + 1)
  ELSE LET j == RunEnd(s, i)
           run == SubSeq(s, i, j)
       IN  (IF Len(run) >= 3 /\ \A k \in DOMAIN run : IsLower(run[k])
              THEN <<run>> ELSE <<>>)
           \o findall_from(s, j + 1)

\* re.findall(r'\b[a-z]{3,}\b', title): the runs of word characters that are
\* made of at least three lowercase letters and nothing else
findall_words(title) == findall_from(title, 1)

RECURSIVE add_words_three_letters(_, _)
\* a variant of the word loop that keeps the words of 3 letters
add_words_three_letters(keywords, words) ==
  IF words = <<>> THEN keywords
  ELSE add_words_three_letters(
         IF Len(words[1]) >= 3 THEN dict_add(keywords, words[1], 20)
         ELSE keywords,
         Tail(words))

RECURSIVE add_words(_, _)
\* for word in words: if len(word) > 3: keywords[word] += 2
add_words(keywords, words) ==
  IF words = <<>> THEN keywords
  ELSE add_words(IF Len(words[1]) > 3 THEN dict_add(keywords, words[1], 20)
                 ELSE keywords,
                 Tail(words))

RECURSIVE add_twitter_raw_score(_, _)
\* a variant of the twitter loop that weighs a name by 3 times the tweet
\* volume of its record
add_twitter_raw_score(keywords, trends) ==
  IF trends = <<>> THEN keywords
  ELSE LET keyword == lower(dict_get(trends[1], KeyName, <<>>))
       IN  add_twitter_raw_score(
             IF keyword # <<>>
               THEN dict_add(keywords, SelectSeq(keyword, NotHash),
                             30 * dict_get(trends[1], KeyTweetVolume, 1))
             ELSE keywords,
             Tail(trends))

RECURSIVE add_twitter(_, _)
\* the loop over all_trends['twitter']
add_twitter(keywords, trends) ==
  IF trends = <<>> THEN keywords
  ELSE LET keyword == lower(dict_get(trends[1], KeyName, <<>>))
       IN  add_twitter(IF keyword # <<>>
                         THEN dict_add(keywords, SelectSeq(keyword, NotHash), 30)
                       ELSE keywords,
                       Tail(trends))

RECURSIVE add_titles(_, _, _)
\* the loops over all_trends['reddit'] (key 'name') and all_trends['news']
\* (key 'title')
add_titles(keywords, trends, key) ==
  IF trends = <<>> THEN keywords
  ELSE LET title == lower(dict_get(trends[1], key, <<>>))
       IN  add_titles(IF title # <<>>
                        THEN add_words(keywords, findall_words(title))
                      ELSE keywords,
                      Tail(trends), key)

RECURSIVE add_google(_, _)
\* the loop over all_trends['google_trends']
add_google(keywords, trends) ==
  IF trends = <<>> THEN keywords
  ELSE LET keyword == lower(dict_get(trends[1], KeyTerm, <<>>))
           score == dict_get(trends[1], KeyScore, 50)
       IN  add_google(IF keyword # <<>> THEN dict_add(keywords, keyword, score)
                      ELSE keywords,
                      Tail(trends))

\* _extract_keywords
extract_keywords(all_trends) ==
  add_google(
    add_titles(
      add_titles(
        add_twitter(<<>>, all_trends.twitter),
        all_trends.reddit, KeyName),
      all_trends.news, KeyTitle),
    all_trends.google_trends)

(***************************************************************************)
(* Scoring and ranking: _compute_trend_scores, _categorize_trends,         *)
(* analyze_trends                                                          *)
(***************************************************************************)
\* self.platforms, which is also the key order of all_trends
platforms == <<"twitter", "reddit", "news", "google_trends">>

stop_words ==
  << <<"t","h","e">>,
     <<"a","n","d">>,
     <<"t","h","a","t">>,
     <<"h","a","v","e">>,
     <<"f","o","r">>,
     <<"n","o","t">>,
     <<"w","i","t","h">>,
     <<"y","o","u">>,
     <<"t","h","i","s">> >>

\* ' '.join([str(trend) for trend in trends]).lower()
platform_text(trends) ==
  lower(join(<<" ">>, [i \in DOMAIN trends |-> str_trend(trends[i])]))

\* _compute_trend_scores; a score is frequency * (1 + platforms_present / 4),
\* kept as frequency-in-tenths * (4 + platforms_present), that is in fortieths
compute_trend_scores(keywords, all_trends) ==
  LET text == <<platform_text(all_trends[platforms[1]]),
                 platform_text(all_trends[platforms[2]]),
                 platform_text(all_trends[platforms[3]]),
                 platform_text(all_trends[platforms[4]])>>
      kept == SelectSeq(keywords, LAMBDA e : e.k \notin Range(stop_words))
      platforms_present(k) ==
        Cardinality({p \in DOMAIN platforms : contains(k, text[p])})
  IN  [i \in DOMAIN kept |->
         [k |-> kept[i].k,
          v |-> kept[i].v * (Len(platforms) + platforms_present(kept[i].k))]]

RemoveAt(s, i) == SubSeq(s, 1, i - 1) \o SubSeq(s, i + 1, Len(s))

RECURSIVE sorted_desc(_)
\* sorted(items, key=lambda x: x[1], reverse=True): a stable sort, so items of
\* equal score keep the order they have in the dict
sorted_desc(items) ==
  IF items = <<>> THEN <<>>
  ELSE LET i == CHOOSE i \in DOMAIN items :
                  /\ \A j \in DOMAIN items : items[j].v <= items[i].v
                  /\ \A j \in 1..(i - 1) : items[j].v < items[i].v
       IN  <<items[i]>> \o sorted_desc(RemoveAt(items, i))

\* the `categories` dict of _categorize_trends, in insertion order
categorize_categories ==
  <<
     [category |-> "crypto", keywords |->
       << <<"b","i","t","c","o","i","n">>,
          <<"e","t","h","e","r","e","u","m">>,
          <<"c","r","y","p","t","o">>,
          <<"b","l","o","c","k","c","h","a","i","n">>,
          <<"n","f","t">>,
          <<"d","e","f","i">>,
          <<"w","e","b","3">> >> ],
     [category |-> "meme", keywords |->
       << <<"m","e","m","e">>,
          <<"v","i","r","a","l">>,
          <<"f","u","n","n","y">>,
          <<"j","o","k","e">>,
          <<"l","o","l">>,
          <<"t","r","e","n","d","i","n","g">> >> ],
     [category |-> "tech", keywords |->
       << <<"a","i">>,
          <<"a","r","t","i","f","i","c","i","a","l">>,
          <<"t","e","c","h","n","o","l","o","g","y">>,
          <<"s","o","f","t","w","a","r","e">>,
          <<"h","a","r","d","w","a","r","e">>,
          <<"a","p","p">>,
          <<"d","i","g","i","t","a","l">> >> ],
     [category |-> "finance", keywords |->
       << <<"m","a","r","k","e","t">>,
          <<"s","t","o","c","k">>,
          <<"i","n","v","e","s","t">>,
          <<"t","r","a","d","i","n","g">>,
          <<"f","i","n","a","n","c","e">>,
          <<"e","c","o","n","o","m","i","c">> >> ],
     [category |-> "entertainment", keywords |->
       << <<"m","o","v","i","e">>,
          <<"m","u","s","i","c">>,
          <<"c","e","l","e","b","r","i","t","y">>,
          <<"g","a","m","e">>,
          <<"p","l","a","y">>,
          <<"s","t","r","e","a","m">> >> ],
     [category |-> "other", keywords |->
       << >> ]
  >>

\* the category _categorize_trends assigns to a keyword
assigned_category(keyword) ==
  LET hit == {i \in DOMAIN categorize_categories :
                \E n \in DOMAIN categorize_categories[i].keywords :
                  contains(categorize_categories[i].keywords[n], keyword)}
  IN  IF hit = {} THEN "other"
      ELSE categorize_categories[CHOOSE i \in hit : \A j \in hit : i <= j].category

\* _categorize_trends
categorize_trends(trend_scores) ==
  [c \in {categorize_categories[i].category : i \in DOMAIN categorize_categories} |->
     sorted_desc(SelectSeq(trend_scores, LAMBDA e : assigned_category(e.k) = c))]

\* the ranking of analyze_trends: sorted(trend_scores.items(), ...)[:10]
top_trends_of(trend_scores) == Prefix(sorted_desc(trend_scores), 10)

\* analyze_trends, given what the four fetches returned
analyze(all_trends) ==
  LET keywords == extract_keywords(all_trends)
      trend_scores == compute_trend_scores(keywords, all_trends)
  IN  [top_trends |-> top_trends_of(trend_scores),
       categorized_trends |-> categorize_trends(trend_scores),
       raw_data |-> all_trends]

(***************************************************************************)
(* Source adapters: fetch_twitter_trends, fetch_reddit_trends,             *)
(* fetch_news_trends, fetch_google_trends                                  *)
(*                                                                         *)
(* Each adapter ignores the content of the upstream response and returns   *)
(* a list that is written in the source.  Times are in seconds.            *)
(***************************************************************************)
\* the `trends` list of fetch_twitter_trends (lines 72-83)
twitter_trends ==
  << <<StrItem(KeyName,
           <<"#","A","I">>),
       IntItem(KeyTweetVolume, 42000)>>,
     <<StrItem(KeyName,
           <<"#","C","r","y","p","t","o">>),
       IntItem(KeyTweetVolume, 38000)>>,
     <<StrItem(KeyName,
           <<"#","N","F","T","s">>),
       IntItem(KeyTweetVolume, 35000)>>,
     <<StrItem(KeyName,
           <<"#","W","e","b","3">>),
       IntItem(KeyTweetVolume, 30000)>>,
     <<StrItem(KeyName,
           <<"#","D","e","F","i">>),
       IntItem(KeyTweetVolume, 25000)>>,
     <<StrItem(KeyName,
           <<"#","B","l","o","c","k","c","h","a","i","n">>),
       IntItem(KeyTweetVolume, 22000)>>,
     <<StrItem(KeyName,
           <<"#","M","e","t","a","v","e","r","s","e">>),
       IntItem(KeyTweetVolume, 20000)>>,
     <<StrItem(KeyName,
           <<"#","G","a","m","e","F","i">>),
       IntItem(KeyTweetVolume, 18000)>>,
     <<StrItem(KeyName,
           <<"#","D","A","O">>),
       IntItem(KeyTweetVolume, 15000)>>,
     <<StrItem(KeyName,
           <<"#","S","m","a","r","t","C","o","n","t","r","a","c","t","s">>),
       IntItem(KeyTweetVolume, 12000)>> >>

\* the `trends` list of fetch_reddit_trends (lines 123-134)
reddit_trends ==
  << <<StrItem(KeyName,
           <<"N","e","w"," ","b","r","e","a","k","t","h","r","o","u","g","h"," ","i","n"," ","q","u","a","n","t","u","m"," ","c","o","m","p","u","t","i","n","g">>),
       StrItem(KeyUrl,
           <<"h","t","t","p","s",":","/","/","r","e","d","d","i","t",".","c","o","m","/","r","/","s","c","i","e","n","c","e","/","1","2","3">>),
       IntItem(KeyScore, 15000),
       StrItem(KeySubreddit,
           <<"s","c","i","e","n","c","e">>)>>,
     <<StrItem(KeyName,
           <<"L","a","t","e","s","t"," ","c","r","y","p","t","o"," ","m","a","r","k","e","t"," ","a","n","a","l","y","s","i","s">>),
       StrItem(KeyUrl,
           <<"h","t","t","p","s",":","/","/","r","e","d","d","i","t",".","c","o","m","/","r","/","c","r","y","p","t","o","c","u","r","r","e","n","c","y","/","4","5","6">>),
       IntItem(KeyScore, 12000),
       StrItem(KeySubreddit,
           <<"c","r","y","p","t","o","c","u","r","r","e","n","c","y">>)>>,
     <<StrItem(KeyName,
           <<"N","e","w"," ","A","I"," ","m","o","d","e","l"," ","g","e","n","e","r","a","t","e","s"," ","r","e","a","l","i","s","t","i","c"," ","i","m","a","g","e","s">>),
       StrItem(KeyUrl,
           <<"h","t","t","p","s",":","/","/","r","e","d","d","i","t",".","c","o","m","/","r","/","t","e","c","h","n","o","l","o","g","y","/","7","8","9">>),
       IntItem(KeyScore, 10000),
       StrItem(KeySubreddit,
           <<"t","e","c","h","n","o","l","o","g","y">>)>>,
     <<StrItem(KeyName,
           <<"D","e","c","e","n","t","r","a","l","i","z","e","d"," ","f","i","n","a","n","c","e"," ","g","a","i","n","i","n","g"," ","m","o","m","e","n","t","u","m">>),
       StrItem(KeyUrl,
           <<"h","t","t","p","s",":","/","/","r","e","d","d","i","t",".","c","o","m","/","r","/","d","e","f","i","/","0","1","2">>),
       IntItem(KeyScore, 8000),
       StrItem(KeySubreddit,
           <<"d","e","f","i">>)>>,
     <<StrItem(KeyName,
           <<"T","o","p"," ","N","F","T"," ","c","o","l","l","e","c","t","i","o","n","s"," ","t","h","i","s"," ","w","e","e","k">>),
       StrItem(KeyUrl,
           <<"h","t","t","p","s",":","/","/","r","e","d","d","i","t",".","c","o","m","/","r","/","n","f","t","/","3","4","5">>),
       IntItem(KeyScore, 7500),
       StrItem(KeySubreddit,
           <<"n","f","t">>)>>,
     <<StrItem(KeyName,
           <<"S","m","a","r","t"," ","c","o","n","t","r","a","c","t"," ","s","e","c","u","r","i","t","y"," ","b","e","s","t"," ","p","r","a","c","t","i","c","e","s">>),
       StrItem(KeyUrl,
           <<"h","t","t","p","s",":","/","/","r","e","d","d","i","t",".","c","o","m","/","r","/","e","t","h","e","r","e","u","m","/","6","7","8">>),
       IntItem(KeyScore, 7000),
       StrItem(KeySubreddit,
           <<"e","t","h","e","r","e","u","m">>)>>,
     <<StrItem(KeyName,
           <<"B","l","o","c","k","c","h","a","i","n"," ","u","s","e"," ","c","a","s","e","s"," ","b","e","y","o","n","d"," ","c","r","y","p","t","o">>),
       StrItem(KeyUrl,
           <<"h","t","t","p","s",":","/","/","r","e","d","d","i","t",".","c","o","m","/","r","/","b","l","o","c","k","c","h","a","i","n","/","9","0","1">>),
       IntItem(KeyScore, 6500),
       StrItem(KeySubreddit,
           <<"b","l","o","c","k","c","h","a","i","n">>)>>,
     <<StrItem(KeyName,
           <<"W","e","b","3"," ","d","e","v","e","l","o","p","m","e","n","t"," ","t","o","o","l","s"," ","r","o","u","n","d","u","p">>),
       StrItem(KeyUrl,
           <<"h","t","t","p","s",":","/","/","r","e","d","d","i","t",".","c","o","m","/","r","/","w","e","b","3","/","2","3","4">>),
       IntItem(KeyScore, 6000),
       StrItem(KeySubreddit,
           <<"w","e","b","3">>)>>,
     <<StrItem(KeyName,
           <<"M","e","t","a","v","e","r","s","e"," ","p","r","o","p","e","r","t","y"," ","i","n","v","e","s","t","m","e","n","t","s"," ","s","u","r","g","e">>),
       StrItem(KeyUrl,
           <<"h","t","t","p","s",":","/","/","r","e","d","d","i","t",".","c","o","m","/","r","/","m","e","t","a","v","e","r","s","e","/","5","6","7">>),
       IntItem(KeyScore, 5500),
       StrItem(KeySubreddit,
           <<"m","e","t","a","v","e","r","s","e">>)>>,
     <<StrItem(KeyName,
           <<"D","A","O"," ","g","o","v","e","r","n","a","n","c","e"," ","m","o","d","e","l","s"," ","c","o","m","p","a","r","e","d">>),
       StrItem(KeyUrl,
           <<"h","t","t","p","s",":","/","/","r","e","d","d","i","t",".","c","o","m","/","r","/","d","a","o","s","/","8","9","0">>),
       IntItem(KeyScore, 5000),
       StrItem(KeySubreddit,
           <<"d","a","o","s">>)>> >>

\* the `trends` list of fetch_news_trends (lines 174-185)
news_trends ==
  << <<StrItem(KeyTitle,
           <<"N","e","w"," ","b","r","e","a","k","t","h","r","o","u","g","h"," ","i","n"," ","q","u","a","n","t","u","m"," ","c","o","m","p","u","t","i","n","g">>),
       StrItem(KeyUrl,
           <<"h","t","t","p","s",":","/","/","e","x","a","m","p","l","e",".","c","o","m","/","1">>),
       StrItem(KeySource,
           <<"T","e","c","h","N","e","w","s">>),
       StrItem(KeyPublishedDate,
           <<"2","0","2","3","-","0","6","-","0","1">>)>>,
     <<StrItem(KeyTitle,
           <<"L","a","t","e","s","t"," ","c","r","y","p","t","o"," ","m","a","r","k","e","t"," ","a","n","a","l","y","s","i","s">>),
       StrItem(KeyUrl,
           <<"h","t","t","p","s",":","/","/","e","x","a","m","p","l","e",".","c","o","m","/","2">>),
       StrItem(KeySource,
           <<"C","r","y","p","t","o","D","a","i","l","y">>),
       StrItem(KeyPublishedDate,
           <<"2","0","2","3","-","0","6","-","0","1">>)>>,
     <<StrItem(KeyTitle,
           <<"N","e","w"," ","A","I"," ","m","o","d","e","l"," ","g","e","n","e","r","a","t","e","s"," ","r","e","a","l","i","s","t","i","c"," ","i","m","a","g","e","s">>),
       StrItem(KeyUrl,
           <<"h","t","t","p","s",":","/","/","e","x","a","m","p","l","e",".","c","o","m","/","3">>),
       StrItem(KeySource,
           <<"A","I","N","e","w","s">>),
       StrItem(KeyPublishedDate,
           <<"2","0","2","3","-","0","6","-","0","1">>)>>,
     <<StrItem(KeyTitle,
           <<"D","e","c","e","n","t","r","a","l","i","z","e","d"," ","f","i","n","a","n","c","e"," ","g","a","i","n","i","n","g"," ","m","o","m","e","n","t","u","m">>),
       StrItem(KeyUrl,
           <<"h","t","t","p","s",":","/","/","e","x","a","m","p","l","e",".","c","o","m","/","4">>),
       StrItem(KeySource,
           <<"B","l","o","c","k","c","h","a","i","n","T","o","d","a","y">>),
       StrItem(KeyPublishedDate,
           <<"2","0","2","3","-","0","6","-","0","1">>)>>,
     <<StrItem(KeyTitle,
           <<"T","o","p"," ","N","F","T"," ","c","o","l","l","e","c","t","i","o","n","s"," ","t","h","i","s"," ","w","e","e","k">>),
       StrItem(KeyUrl,
           <<"h","t","t","p","s",":","/","/","e","x","a","m","p","l","e",".","c","o","m","/","5">>),
       StrItem(KeySource,
           <<"N","F","T","W","o","r","l","d">>),
       StrItem(KeyPublishedDate,
           <<"2","0","2","3","-","0","6","-","0","1">>)>>,
     <<StrItem(KeyTitle,
           <<"S","m","a","r","t"," ","c","o","n","t","r","a","c","t"," ","s","e","c","u","r","i","t","y"," ","b","e","s","t"," ","p","r","a","c","t","i","c","e","s">>),
       StrItem(KeyUrl,
           <<"h","t","t","p","s",":","/","/","e","x","a","m","p","l","e",".","c","o","m","/","6">>),
       StrItem(KeySource,
           <<"S","e","c","u","r","i","t","y","W","e","e","k">>),
       StrItem(KeyPublishedDate,
           <<"2","0","2","3","-","0","6","-","0","1">>)>>,
     <<StrItem(KeyTitle,
           <<"B","l","o","c","k","c","h","a","i","n"," ","u","s","e"," ","c","a","s","e","s"," ","b","e","y","o","n","d"," ","c","r","y","p","t","o">>),
       StrItem(KeyUrl,
           <<"h","t","t","p","s",":","/","/","e","x","a","m","p","l","e",".","c","o","m","/","7">>),
       StrItem(KeySource,
           <<"T","e","c","h","R","e","v","i","e","w">>),
       StrItem(KeyPublishedDate,
           <<"2","0","2","3","-","0","6","-","0","1">>)>>,
     <<StrItem(KeyTitle,
           <<"W","e","b","3"," ","d","e","v","e","l","o","p","m","e","n","t"," ","t","o","o","l","s"," ","r","o","u","n","d","u","p">>),
       StrItem(KeyUrl,
           <<"h","t","t","p","s",":","/","/","e","x","a","m","p","l","e",".","c","o","m","/","8">>),
       StrItem(KeySource,
           <<"D","e","v","N","e","w","s">>),
       StrItem(KeyPublishedDate,
           <<"2","0","2","3","-","0","6","-","0","1">>)>>,
     <<StrItem(KeyTitle,
           <<"M","e","t","a","v","e","r","s","e"," ","p","r","o","p","e","r","t","y"," ","i","n","v","e","s","t","m","e","n","t","s"," ","s","u","r","g","e">>),
       StrItem(KeyUrl,
           <<"h","t","t","p","s",":","/","/","e","x","a","m","p","l","e",".","c","o","m","/","9">>),
       StrItem(KeySource,
           <<"V","i","r","t","u","a","l","R","e","a","l","t","y">>),
       StrItem(KeyPublishedDate,
           <<"2","0","2","3","-","0","6","-","0","1">>)>>,
     <<StrItem(KeyTitle,
           <<"D","A","O"," ","g","o","v","e","r","n","a","n","c","e"," ","m","o","d","e","l","s"," ","c","o","m","p","a","r","e","d">>),
       StrItem(KeyUrl,
           <<"h","t","t","p","s",":","/","/","e","x","a","m","p","l","e",".","c","o","m","/","1","0">>),
       StrItem(KeySource,
           <<"G","o","v","T","e","c","h">>),
       StrItem(KeyPublishedDate,
           <<"2","0","2","3","-","0","6","-","0","1">>)>> >>

\* the `trends` list of fetch_google_trends (lines 225-236)
google_trends ==
  << <<StrItem(KeyTerm,
           <<"c","r","y","p","t","o","c","u","r","r","e","n","c","y">>),
       IntItem(KeyScore, 100)>>,
     <<StrItem(KeyTerm,
           <<"N","F","T">>),
       IntItem(KeyScore, 85)>>,
     <<StrItem(KeyTerm,
           <<"b","l","o","c","k","c","h","a","i","n">>),
       IntItem(KeyScore, 75)>>,
     <<StrItem(KeyTerm,
           <<"w","e","b","3">>),
       IntItem(KeyScore, 65)>>,
     <<StrItem(KeyTerm,
           <<"m","e","t","a","v","e","r","s","e">>),
       IntItem(KeyScore, 60)>>,
     <<StrItem(KeyTerm,
           <<"d","e","f","i"," ","p","r","o","j","e","c","t","s">>),
       IntItem(KeyScore, 55)>>,
     <<StrItem(KeyTerm,
           <<"c","r","y","p","t","o"," ","w","a","l","l","e","t">>),
       IntItem(KeyScore, 50)>>,
     <<StrItem(KeyTerm,
           <<"d","a","o"," ","g","o","v","e","r","n","a","n","c","e">>),
       IntItem(KeyScore, 45)>>,
     <<StrItem(KeyTerm,
           <<"s","m","a","r","t"," ","c","o","n","t","r","a","c","t","s">>),
       IntItem(KeyScore, 40)>>,
     <<StrItem(KeyTerm,
           <<"t","o","k","e","n","o","m","i","c","s">>),
       IntItem(KeyScore, 35)>> >>

\* how many records of each hard-coded list the model keeps
MockLen == 2

\* the list a successful upstream call of a platform makes the adapter return
upstream_trends(platform) ==
  Prefix(CASE platform = "twitter" -> twitter_trends
           [] platform = "reddit" -> reddit_trends
           [] platform = "news" -> news_trends
           [] platform = "google_trends" -> google_trends,
         MockLen)

\* what the `except Exception` branch of an adapter returns
except_return == <<>>

\* cache_key: f"twitter_{location_id}" for Twitter, the platform name otherwise
cache_key(platform, location_id) ==
  IF platform = "twitter" THEN <<"twitter", location_id>> ELSE <<platform>>

\* timedelta.seconds of a difference of two times: the seconds within the day,
\* the whole days being kept apart in timedelta.days
timedelta_seconds(delta) == delta % 86400

\* the cache check of an adapter:
\* cache_key in self.trend_cache and (now - self.last_update[platform]).seconds < 3600
cache_is_fresh(cache, updated, platform, location_id, time) ==
  /\ cache_key(platform, location_id) \in DOMAIN cache
  /\ timedelta_seconds(time - updated[platform]) < 3600

(***************************************************************************)
(* get_top_trends: the ranking of the combined scores of three platforms,  *)
(* cut to a caller-supplied limit.  Scores are the integers of the records.*)
(***************************************************************************)
KeyTopic == <<"t","o","p","i","c">>

\* trend.get(key, '').lower() or trend.get('topic', '').lower()
name_or_topic(trend, key) ==
  LET name == lower(dict_get(trend, key, <<>>))
  IN  IF name # <<>> THEN name ELSE lower(dict_get(trend, KeyTopic, <<>>))

RECURSIVE combine_twitter(_, _)
\* the loop over twitter_trends: the name without '#' gets the score, 30 when
\* the record has none
combine_twitter(combined_trends, trends) ==
  IF trends = <<>> THEN combined_trends
  ELSE LET name == name_or_topic(trends[1], KeyName)
           score == dict_get(trends[1], KeyScore, 30)
       IN  combine_twitter(IF name # <<>>
                             THEN dict_add(combined_trends, SelectSeq(name, NotHash), score)
                           ELSE combined_trends,
                           Tail(trends))

RECURSIVE combine_words(_, _, _)
\* for word in words: if len(word) > 3: combined_trends[word] += score
combine_words(combined_trends, words, score) ==
  IF words = <<>> THEN combined_trends
  ELSE combine_words(IF Len(words[1]) > 3
                       THEN dict_add(combined_trends, words[1], score)
                     ELSE combined_trends,
                     Tail(words), score)

RECURSIVE combine_reddit(_, _)
\* the loop over reddit_trends
combine_reddit(combined_trends, trends) ==
  IF trends = <<>> THEN combined_trends
  ELSE LET name == name_or_topic(trends[1], KeyName)
           score == dict_get(trends[1], KeyScore, 0)
       IN  combine_reddit(IF name # <<>>
                            THEN combine_words(combined_trends, findall_words(name), score)
                          ELSE combined_trends,
                          Tail(trends))

RECURSIVE combine_google(_, _)
\* the loop over google_trends
combine_google(combined_trends, trends) ==
  IF trends = <<>> THEN combined_trends
  ELSE LET term == name_or_topic(trends[1], KeyTerm)
           score == dict_get(trends[1], KeyScore, 0)
       IN  combine_google(IF term # <<>> THEN dict_add(combined_trends, term, score)
                          ELSE combined_trends,
                          Tail(trends))

\* combined_trends of get_top_trends, given what the three fetches returned
combined_trends_of(fetched) ==
  combine_google(
    combine_reddit(combine_twitter(<<>>, fetched.twitter), fetched.reddit),
    fetched.google_trends)

\* the slice s[:n] of Python: a negative n counts from the end
slice_to(s, n) ==
  IF n >= 0 THEN Prefix(s, n)
  ELSE Prefix(s, IF Len(s) + n > 0 THEN Len(s) + n ELSE 0)

\* get_top_trends, given what the three fetches returned
get_top_trends(fetched, limit) ==
  slice_to(sorted_desc(combined_trends_of(fetched)), limit)

(***************************************************************************)
(* The analyzer of src/tests/ai/trend_analyzer.py: a ranking of the topics *)
(* of three sources that is cached for cache_timeout seconds, and token    *)
(* details derived from a trend name and a trend score.                    *)
(*                                                                         *)
(* Source scores and trend scores are in thousandths, weights in           *)
(* hundredths, weighted sums in hundred-thousandths and the scores of the  *)
(* ranking, rounded to two decimals, in hundredths.                        *)
(***************************************************************************)
\* the default of the cache_timeout argument of __init__
cache_timeout == 300

memecoin_keywords ==
  << <<"d","o","g","e">>, <<"s","h","i","b">>, <<"m","o","o","n">>,
     <<"p","e","p","e">>, <<"w","o","j","a","k">>, <<"c","h","a","d">>,
     <<"a","p","e">>, <<"m","e","m","e">>, <<"c","a","t">>, <<"d","o","g">>,
     <<"e","l","o","n">>, <<"r","o","c","k","e","t">>,
     <<"d","i","a","m","o","n","d">>, <<"h","a","n","d","s">>,
     <<"f","o","m","o">>, <<"h","o","d","l">> >>

\* the weights of the three loops of get_top_trends
twitter_weight == 40

reddit_weight == 35

google_weight == 25

\* all_trends[trend] += score * weight, a new key going to the end of the dict
add_weighted(all_trends, trend, amount) ==
  IF \E i \in DOMAIN all_trends : all_trends[i].name = trend
    THEN [i \in DOMAIN all_trends |->
            IF all_trends[i].name = trend
              THEN [all_trends[i] EXCEPT !.score = @ + amount]
            ELSE all_trends[i]]
  ELSE Append(all_trends, [name |-> trend, score |-> amount])

RECURSIVE add_source(_, _, _)
\* one of the three loops `for trend, score in ..._trends`
add_source(all_trends, trends, weight) ==
  IF trends = <<>> THEN all_trends
  ELSE add_source(add_weighted(all_trends, trends[1][1], trends[1][2] * weight),
                  Tail(trends), weight)

\* the three loops with the weights of twitter and reddit exchanged
weighted_sums_exchanged(twitter, reddit, google) ==
  add_source(add_source(add_source(<<>>, twitter, reddit_weight),
                        reddit, twitter_weight),
             google, google_weight)

\* the dict all_trends of get_top_trends after the three loops
weighted_sums(twitter, reddit, google) ==
  add_source(add_source(add_source(<<>>, twitter, twitter_weight),
                        reddit, reddit_weight),
             google, google_weight)

\* round(score, 2): hundred-thousandths to the nearest hundredth, a half going
\* to the even neighbour (on a float the half can go either way; the inputs of
\* the model produce none)
round_2(x) ==
  LET q == x \div 1000
      r == x % 1000
  IN  IF r > 500 \/ (r = 500 /\ q % 2 = 1) THEN q + 1 ELSE q

RECURSIVE sort_by_score(_)
\* result.sort(key=lambda x: x["score"], reverse=True): stable
sort_by_score(result) ==
  IF result = <<>> THEN <<>>
  ELSE LET i == CHOOSE i \in DOMAIN result :
                  /\ \A j \in DOMAIN result : result[j].score <= result[i].score
                  /\ \A j \in 1..(i - 1) : result[j].score < result[i].score
       IN  <<result[i]>> \o sort_by_score(RemoveAt(result, i))

\* the list `result` of get_top_trends, sorted
ranking_of(twitter, reddit, google) ==
  LET all_trends == weighted_sums(twitter, reddit, google)
  IN  sort_by_score([i \in DOMAIN all_trends |->
                       [name |-> all_trends[i].name,
                        score |-> round_2(all_trends[i].score)]])

\* int(x) for the quotient a / b, b > 0: truncation towards zero
int_div(a, b) == IF a >= 0 THEN a \div b ELSE -((-a) \div b)

\* _calculate_initial_supply: int(1_000_000 * (trend_score / 5)), in tokens;
\* a score of s thousandths gives int(1000 * s / 5)
calculate_initial_supply(trend_score) == int_div(1000 * trend_score, 5)

\* _generate_symbol
generate_symbol(trend_name) ==
  LET words == split(trend_name)
      initials == [i \in DOMAIN words |-> words[i][1]]
      symbol ==
        IF Len(words) > 1
          THEN IF Len(initials) < 3
                 THEN initials \o SubSeq(words[1], 2, IF 4 - Len(initials) < Len(words[1])
                                                        THEN 4 - Len(initials)
                                                      ELSE Len(words[1]))
               ELSE initials
        ELSE Prefix(trend_name, 4)
  IN  upper(symbol)

\* _classify_trend_type of src/tests/ai/trend_analyzer.py
tests_ai_classify_trend_type(trend) ==
  LET trend_lower == lower(trend)
  IN  IF \E n \in DOMAIN memecoin_keywords : contains(memecoin_keywords[n], trend_lower)
        THEN "memecoin"
      ELSE IF Len(trend) < 5
                \/ lower_char(trend[1]) \in Range(SubSeq(LowerLetters, 1, 13))
        THEN "memecoin"
      ELSE "utility"

\* str.title(): a letter is upper-cased after a character that is no letter
\* and at the start, and lower-cased after a letter
str_title(s) ==
  <<>> \o [i \in DOMAIN s |->
             IF i > 1 /\ (IsLower(s[i - 1]) \/ IsUpper(s[i - 1]))
               THEN lower_char(s[i])
             ELSE upper_char(s[i])]

\* the lesser of two integers
min(a, b) == IF a < b THEN a ELSE b

\* the description prefix of generate_token_details of src/tests/ai
TestsDescriptionPrefix ==
  <<"T","o","k","e","n"," ","b","a","s","e","d"," ","o","n"," ","t","h","e"," ","t","r","e","n","d","i","n","g"," ","t","o","p","i","c",":"," ">>

\* generate_token_details of src/tests/ai/trend_analyzer.py, without created_at
tests_ai_generate_token_details(trend_name, trend_score) ==
  LET trend_type == tests_ai_classify_trend_type(trend_name)
      initial_supply == calculate_initial_supply(trend_score)
      token_details ==
        [name |-> str_title(trend_name) \o <<" ","T","o","k","e","n">>,
         symbol |-> generate_symbol(trend_name),
         description |-> TestsDescriptionPrefix \o trend_name,
         trend_score |-> trend_score,
         trend_type |-> trend_type,
         initial_supply |-> initial_supply]
  IN  IF trend_type = "memecoin"
        THEN token_details @@
             [burn_rate |-> min(int_div(trend_score * 15, 1000), 300),
              max_supply |-> initial_supply * 10,
              is_mintable |-> FALSE,
              meme_power |-> int_div(trend_score * 10, 1000)]
      ELSE token_details @@
           [burn_rate |-> min(int_div(trend_score * 5, 1000), 100),
            max_supply |-> initial_supply * 4,
            is_mintable |-> TRUE,
            utility_score |-> int_div(trend_score * 10, 1000)]

(***************************************************************************)
(* Inputs                                                                  *)
(***************************************************************************)
\* the words the topics are built from
Vocabulary ==
  << <<"m","e","m","e">>,
       <<"d","e","f","i">>,
       <<"B","i","t","c","o","i","n">>,
       <<"M","o","o","n">>,
       <<"x","y","z">>,
       <<"a","b">>,
       <<"q","u","a","n","t","u","m">>,
       <<"w","e","b","3">>,
       <<"!","!">>,
       <<"S","m","a","r","t">> >>

\* the largest number of words in a topic
MaxWords == 2

RECURSIVE TopicsOf(_)
\* the topics of exactly n words, joined by single spaces
TopicsOf(n) ==
  IF n = 1 THEN Range(Vocabulary)
  ELSE {t \o <<" ">> \o w : t \in TopicsOf(n - 1), w \in Range(Vocabulary)}

\* the topics a caller passes: the empty string and the topics of up to
\* MaxWords words
Topics == {<<>>} \cup UNION {TopicsOf(n) : n \in 1..MaxWords}

\* the categories a caller passes; "sports" is none of the six
InputCategories ==
  {"crypto", "meme", "tech", "finance", "entertainment", "other", "sports"}

InputScores == {-10, 0, 95}

None == [none |-> TRUE]

\* the trend records the aggregation inputs are built from, each with the
\* platform that reports it
RecordPool ==
  << [platform |-> "twitter", trend |->
        <<StrItem(KeyName, <<"#","A","I">>),
          IntItem(KeyTweetVolume, 10)>>],
     [platform |-> "twitter", trend |->
        <<StrItem(KeyName, <<"#","C","r","y","p","t","o">>),
          IntItem(KeyTweetVolume, 38000)>>],
     [platform |-> "twitter", trend |->
        <<StrItem(KeyName, <<"#","T","h","i","s">>),
          IntItem(KeyTweetVolume, 5)>>],
     [platform |-> "reddit", trend |->
        <<StrItem(KeyName, <<"L","a","t","e","s","t"," ","c","r","y","p","t","o"," ","m","a","r","k","e","t">>),
          IntItem(KeyScore, 12000)>>],
     [platform |-> "reddit", trend |->
        <<StrItem(KeyName, <<"a","i"," ","w","i","t","h"," ","c","r","y","p","t","o">>),
          IntItem(KeyScore, 7)>>],
     [platform |-> "news", trend |->
        <<StrItem(KeyTitle, <<"a","i"," ","t","r","e","n","d","s"," ","t","o","d","a","y">>),
          StrItem(KeySource, <<"A","I","N","e","w","s">>)>>],
     [platform |-> "google_trends", trend |->
        <<StrItem(KeyTerm, <<"c","r","y","p","t","o">>),
          IntItem(KeyScore, 100)>>],
     [platform |-> "google_trends", trend |->
        <<StrItem(KeyTerm, <<"N","F","T">>),
          IntItem(KeyScore, 85)>>] >>

\* the largest number of records in an aggregation input
MaxRecords == 3

RECURSIVE InjectiveSeqs(_)
\* the sequences of at most n distinct pool records
InjectiveSeqs(n) ==
  IF n = 0 THEN {<<>>}
  ELSE LET shorter == InjectiveSeqs(n - 1)
       IN  shorter \cup
           UNION {{Append(q, i) : i \in DOMAIN RecordPool \ Range(q)} :
                    q \in {r \in shorter : Len(r) = n - 1}}

\* the all_trends dict that holds the records of a sequence, platform by platform
all_trends_of(q) ==
  [p \in Range(platforms) |->
     LET mine == SelectSeq(q, LAMBDA i : RecordPool[i].platform = p)
     IN  [n \in DOMAIN mine |-> RecordPool[mine[n]].trend]]

AggregationInputs == {all_trends_of(q) : q \in InjectiveSeqs(MaxRecords)}

\* the limits a caller passes to get_top_trends; 5 is the default
Limits == {-1, 0, 1, 2, 5}

\* two topics the sources of the ranking report
Python == <<"P","y","t","h","o","n">>

NFT == <<"N","F","T">>

\* the lists a source of the ranking can return: pairs of a topic and a score
\* in thousandths (9.004, 9.0, 7.2)
SourceLists ==
  { <<>>,
    << <<NFT, 7200>> >>,
    << <<NFT, 9000>>, <<Python, 9004>> >>,
    << <<Python, 9004>>, <<NFT, 9000>> >> }

\* the limits a caller passes to get_top_trends of the ranking; 3 is the default
RankingLimits == {1, 3}

\* the trend names a caller passes to generate_token_details
DetailNames == Topics \cup {<<"D","o","g","e","A","I">>}

\* the trend scores a caller passes with them, in thousandths: -1.0, 0,
\* 0.004, 0.95 and 10.0
DetailScores == {-1000, 0, 4, 950, 10000}

\* the value of time.time() when the analyzer is constructed
ClockStart == 1000

\* the amounts of time, in seconds, between two calls of get_top_trends
ClockSteps == {299, 300}

\* the clock is followed for this many seconds
MaxClock == 600

\* the largest number of get_top_trends calls made on one analyzer
MaxRankingCalls == 3

\* the request threads that run deploy_token concurrently
Requests == {"r1", "r2"}

\* the JSON bodies posted to /api/deploy-token: without a token_id, with the
\* id of no token, with the id of the token
RequestBodies == {"no_token_id", "unknown_token", "token"}

\* the largest number of requests handled by one thread
MaxRequests == 2

\* the trend names passed to analyze_trend_with_ai
InsightTrends == {"doge", "ai"}

\* what the call of openai.ChatCompletion.create can do: answer with a JSON
\* object, answer with text that holds none or a broken one, or raise
UpstreamOutcomes == {"json", "text", "raises"}

\* the amounts of time, in seconds, between two calls of analyze_trend_with_ai
InsightSteps == {3599, 3600}

\* the clock is followed for this many seconds
MaxInsightClock == 7200

\* the largest number of analyze_trend_with_ai calls made on one analyzer
MaxInsightCalls == 4

\* the callers that use one analyzer concurrently
Callers == {"c1", "c2"}

\* the caller of analyze_trends
MainCaller == "c1"

\* the location_id arguments of fetch_twitter_trends
Locations == {1, 2}

\* the largest number of calls made on one analyzer
MaxCalls == 2

\* the amounts of time, in seconds, that pass between two steps
TickSteps == {1800, 3600, 86400}

\* the largest number of times the clock advances
MaxTicks == 1

\* the largest number of upstream calls that raise
MaxFailures == 1

\* the amounts of time, in seconds, between two calls of fetch_twitter_trends
\* made for several locations; together they stay under one day
LocationSteps == {1800, 3600}

\* the largest number of times the clock advances between those calls
MaxLocationTicks == 2

\* the largest number of fetch_twitter_trends calls made for several locations
MaxLocationCalls == 3

(***************************************************************************)
(* State                                                                   *)
(***************************************************************************)
VARIABLES
  trend_keyword,  \* the topic a caller passes to the engine
  call,           \* the operation applied to it and its other arguments
  ret,            \* what that operation returned
  all_trends,     \* the records handed to the aggregation, platform by platform
  analysis,       \* what the aggregation returned for them
  api_keys,       \* self.api_keys: the names of the keys the analyzer was given
  trend_cache,    \* self.trend_cache: cache key -> list of trends
  last_update,    \* self.last_update: platform -> time of the last upstream fetch
  now,            \* the wall clock, datetime.now(), in seconds
  ticks,          \* how many times the clock has advanced
  th,             \* caller -> its position in the call it is making
  stored_at,      \* history: cache key -> time at which its entry was written
  clock,          \* time.time(), in seconds
  cache,          \* self.cache of the analyzer of src/tests/ai: the stored ranking
  last_fetch_time,\* self.last_fetch_time of that analyzer
  fetches,        \* history: how many times that analyzer fetched its sources
  analysis_cache, \* self.cache of the analyzer of src/TrendAnalyzer.py
  openai_calls,   \* history: how many times that analyzer called OpenAI
  is_deployed,    \* Token.is_deployed of one token, as committed to the database
  deployments,    \* history: how many contracts the blockchain service deployed for it
  req             \* request thread -> its position in deploy_token and its response

derive_vars == <<trend_keyword, call, ret>>

aggregate_vars == <<all_trends, analysis>>

analyzer_vars == <<api_keys, trend_cache, last_update, stored_at>>

fetch_vars == <<analyzer_vars, now, ticks, th>>

ranking_vars == <<cache, last_fetch_time, fetches>>

insight_vars == <<analysis_cache, openai_calls>>

\* the state of the components other than the analyzer of src/ai
deploy_vars == <<is_deployed, deployments, req>>

component_vars == <<clock, ranking_vars, insight_vars, deploy_vars>>

vars == <<derive_vars, aggregate_vars, fetch_vars, component_vars>>

\* op, category and score are the call made on the topic; previous is what the
\* same call returned when it was made before
NoCall == [op |-> "none", category |-> None, score |-> None, previous |-> None]

\* no derivation call is being made
DeriveIdle ==
  /\ trend_keyword = <<>>
  /\ call = NoCall
  /\ ret = None

NoTrends == [p \in Range(platforms) |-> <<>>]

\* no aggregation input is given
AggregateIdle ==
  /\ all_trends = NoTrends
  /\ analysis = None

\* the analyzer of src/tests/ai as constructed
RankingIdle ==
  /\ cache = <<>>
  /\ last_fetch_time = 0
  /\ fetches = 0

\* the analyzer of src/TrendAnalyzer.py as constructed
InsightIdle ==
  /\ analysis_cache = <<>>
  /\ openai_calls = 0

\* a request thread that is handling no request; body, seen and status
\* describe the request it handled last
IdleRequest == [pc |-> "idle", body |-> "none", seen |-> FALSE, status |-> 0, calls |-> 0]

\* the token as generate_token stores it, and no request
DeployIdle ==
  /\ is_deployed = FALSE
  /\ deployments = 0
  /\ req = [r \in Requests |-> IdleRequest]

\* the other components are not in use
ComponentsIdle ==
  /\ clock = 0
  /\ RankingIdle
  /\ InsightIdle
  /\ DeployIdle

\* a caller that is making no call; op, ret, outcome and age describe the call
\* it made last
IdleCaller ==
  [pc |-> "idle", op |-> "none", platform |-> "twitter", location_id |-> 1,
   got |-> NoTrends, ret |-> None,
   outcome |-> [p \in Range(platforms) |-> "none"],
   age |-> [p \in Range(platforms) |-> 0],
   calls |-> 0]

\* no analyzer is in use
FetchIdle ==
  /\ api_keys = {}
  /\ trend_cache = <<>>
  /\ last_update = [p \in Range(platforms) |-> 0]
  /\ stored_at = <<>>
  /\ now = 0
  /\ ticks = 0
  /\ th = [c \in Callers |-> IdleCaller]

(***************************************************************************)
(* Classification and derivation, applied to a topic                       *)
(***************************************************************************)
InitDerive ==
  /\ trend_keyword \in Topics
  /\ call = NoCall
  /\ ret = None
  /\ AggregateIdle
  /\ FetchIdle
  /\ ComponentsIdle

GetTrendCategory ==
  /\ call.op = "none"
  /\ call' = [NoCall EXCEPT !.op = "get_trend_category"]
  /\ ret' = get_trend_category(trend_keyword)
  /\ UNCHANGED <<trend_keyword, aggregate_vars, fetch_vars, component_vars>>

ClassifyTrendType ==
  /\ call.op = "none"
  /\ call' = [NoCall EXCEPT !.op = "classify_trend_type"]
  /\ ret' = classify_trend_type(trend_keyword)
  /\ UNCHANGED <<trend_keyword, aggregate_vars, fetch_vars, component_vars>>

GenerateTokenConfig ==
  /\ call.op = "none"
  /\ \E c \in InputCategories, sfx \in Range(suffixes) :
       /\ call' = [NoCall EXCEPT !.op = "generate_token_config", !.category = c]
       /\ ret' = generate_token_config(trend_keyword, c, sfx)
  /\ UNCHANGED <<trend_keyword, aggregate_vars, fetch_vars, component_vars>>

SuggestTokenConfiguration ==
  /\ call.op = "none"
  /\ trend_keyword # <<>>
  /\ \E sfx \in Range(suffixes) :
       /\ call' = [NoCall EXCEPT !.op = "suggest_token_configuration"]
       /\ ret' = suggest_token_configuration(trend_keyword, sfx)
  /\ UNCHANGED <<trend_keyword, aggregate_vars, fetch_vars, component_vars>>

GenerateTokenDetails ==
  /\ call.op = "none"
  /\ \E sc \in InputScores, sfx \in Range(suffixes) :
       /\ call' = [NoCall EXCEPT !.op = "generate_token_details", !.score = sc]
       /\ ret' = generate_token_details(trend_keyword, sc, sfx)
  /\ UNCHANGED <<trend_keyword, aggregate_vars, fetch_vars, component_vars>>

\* the caller makes the _generate_token_config call a second time, with the
\* same topic and category; random.choice draws again
GenerateTokenConfigAgain ==
  /\ call.op = "generate_token_config"
  /\ call.previous = None
  /\ \E sfx \in Range(suffixes) :
       /\ call' = [call EXCEPT !.previous = ret]
       /\ ret' = generate_token_config(trend_keyword, call.category, sfx)
  /\ UNCHANGED <<trend_keyword, aggregate_vars, fetch_vars, component_vars>>

\* a second call whose answer depends on a call having been made before: it
\* uses the length fallback
GetTrendCategoryAgain_after_call ==
  /\ call.op = "get_trend_category"
  /\ call.previous = None
  /\ call' = [call EXCEPT !.previous = [value |-> ret]]
  /\ ret' = get_trend_category_length_fallback(trend_keyword)
  /\ UNCHANGED <<trend_keyword, aggregate_vars, fetch_vars, component_vars>>

\* the caller makes the _get_trend_category call a second time, with the same
\* topic
GetTrendCategoryAgain ==
  /\ call.op = "get_trend_category"
  /\ call.previous = None
  /\ call' = [call EXCEPT !.previous = [value |-> ret]]
  /\ ret' = get_trend_category(trend_keyword)
  /\ UNCHANGED <<trend_keyword, aggregate_vars, fetch_vars, component_vars>>

NextDerive ==
  \/ GetTrendCategory
  \/ GetTrendCategoryAgain
  \/ ClassifyTrendType
  \/ GenerateTokenConfig
  \/ GenerateTokenConfigAgain
  \/ SuggestTokenConfiguration
  \/ GenerateTokenDetails

SpecDerive == InitDerive /\ [][NextDerive]_vars

(***************************************************************************)
(* Keyword extraction, scoring and ranking, applied to given records       *)
(***************************************************************************)
InitAggregate ==
  /\ all_trends \in AggregationInputs
  /\ analysis = None
  /\ DeriveIdle
  /\ FetchIdle
  /\ ComponentsIdle

\* lines 259-272 of analyze_trends, on the lists the fetches returned
ExtractScoreRank ==
  /\ analysis = None
  /\ analysis' = analyze(all_trends)
  /\ UNCHANGED <<all_trends, derive_vars, fetch_vars, component_vars>>

NextAggregate == ExtractScoreRank

SpecAggregate == InitAggregate /\ [][NextAggregate]_vars

\* get_top_trends after its three fetches, on the lists they returned
GetTopTrends ==
  /\ analysis = None
  /\ \E limit \in Limits :
       analysis' = [limit |-> limit, top_trends |-> get_top_trends(all_trends, limit)]
  /\ UNCHANGED <<all_trends, derive_vars, fetch_vars, component_vars>>

NextTopTrends == GetTopTrends

SpecTopTrends == InitAggregate /\ [][NextTopTrends]_vars

(***************************************************************************)
(* deploy_token of src/app.py, run by concurrent request threads on one    *)
(* token, each in a database session of its own                            *)
(***************************************************************************)
InitDeploy ==
  /\ clock = 0
  /\ RankingIdle
  /\ InsightIdle
  /\ DeployIdle
  /\ DeriveIdle
  /\ AggregateIdle
  /\ FetchIdle

\* the thread ends its request with a response of this status; the session
\* is closed
responded(r, status) == [req EXCEPT ![r].pc = "idle", ![r].status = status]

\* a request arrives: the body is checked (400 without token_id), the session
\* is opened and the token queried (404 when there is none), and the request
\* is refused with 400 when the token read has is_deployed set
DeployTokenRequest(r) ==
  /\ req[r].pc = "idle"
  /\ req[r].calls < MaxRequests
  /\ \E body \in RequestBodies :
       LET me == [IdleRequest EXCEPT !.body = body, !.calls = req[r].calls + 1,
                                     !.seen = (body = "token" /\ is_deployed)]
       IN  req' = [req EXCEPT ![r] =
                     CASE body = "no_token_id" -> [me EXCEPT !.status = 400]
                       [] body = "unknown_token" -> [me EXCEPT !.status = 404]
                       [] body = "token" /\ is_deployed -> [me EXCEPT !.status = 400]
                       [] OTHER -> [me EXCEPT !.pc = "deploy"]]
  /\ UNCHANGED <<is_deployed, deployments, clock, ranking_vars, insight_vars,
                 derive_vars, aggregate_vars, fetch_vars>>

\* blockchain_service.deploy_token(**deployment_args) returns the deployment
DeployTokenOnChain(r) ==
  /\ req[r].pc = "deploy"
  /\ deployments' = deployments + 1
  /\ req' = [req EXCEPT ![r].pc = "commit"]
  /\ UNCHANGED <<is_deployed, clock, ranking_vars, insight_vars, derive_vars,
                 aggregate_vars, fetch_vars>>

\* blockchain_service.deploy_token raises: get_session rolls back and raises
\* again, and the handler answers 500
DeployTokenRaises(r) ==
  /\ req[r].pc = "deploy"
  /\ req' = responded(r, 500)
  /\ UNCHANGED <<is_deployed, deployments, clock, ranking_vars, insight_vars,
                 derive_vars, aggregate_vars, fetch_vars>>

\* the deployment and the transaction are added, token.is_deployed = True,
\* session.commit(): the flag is in the database, the handler answers 200
DeployTokenCommit(r) ==
  /\ req[r].pc = "commit"
  /\ is_deployed' = TRUE
  /\ req' = responded(r, 200)
  /\ UNCHANGED <<deployments, clock, ranking_vars, insight_vars, derive_vars,
                 aggregate_vars, fetch_vars>>

\* session.commit() raises: get_session rolls back, the handler answers 500
DeployTokenCommitRaises(r) ==
  /\ req[r].pc = "commit"
  /\ req' = responded(r, 500)
  /\ UNCHANGED <<is_deployed, deployments, clock, ranking_vars, insight_vars,
                 derive_vars, aggregate_vars, fetch_vars>>

\* a request thread takes its next step
DeployTokenStep(r) ==
  \/ DeployTokenRequest(r)
  \/ DeployTokenOnChain(r)
  \/ DeployTokenRaises(r)
  \/ DeployTokenCommit(r)
  \/ DeployTokenCommitRaises(r)

NextDeploy == \E r \in Requests : DeployTokenStep(r)

SpecDeploy == InitDeploy /\ [][NextDeploy]_vars

\* one request at a time, and no commit that raises
NextDeployInTurn ==
  \E r \in Requests :
    /\ \A o \in Requests \ {r} : req[o].pc = "idle"
    /\ \/ DeployTokenRequest(r)
       \/ DeployTokenOnChain(r)
       \/ DeployTokenRaises(r)
       \/ DeployTokenCommit(r)

SpecDeployInTurn == InitDeploy /\ [][NextDeployInTurn]_vars

(***************************************************************************)
(* The analyzer of src/TrendAnalyzer.py: analyze_trend_with_ai and its     *)
(* cache                                                                   *)
(***************************************************************************)
\* self.cache_expiry, in seconds
cache_expiry == 3600

\* cache_key = f"trend_analysis_{trend_name}"
analysis_cache_key(trend_name) == <<"trend_analysis_", trend_name>>

\* cache_key in self.cache and
\* time.time() - self.cache[cache_key]["timestamp"] < self.cache_expiry
analysis_is_cached(trend_name) ==
  /\ analysis_cache_key(trend_name) \in DOMAIN analysis_cache
  /\ clock - analysis_cache[analysis_cache_key(trend_name)].timestamp < cache_expiry

\* the object parsed from the answer numbered id
parsed_result(id) == [kind |-> "json", response |-> id]

\* the result built when no object can be parsed from the answer numbered id
fallback_result(trend_name, id) ==
  [kind |-> "fallback", trend_name |-> trend_name,
   description |-> "Analysis not available in structured format",
   raw_analysis |-> id]

\* the result built when the upstream call numbered id raises
error_result(trend_name, id) ==
  [kind |-> "error", trend_name |-> trend_name, error |-> id]

\* how many analyze_trend_with_ai calls were made
insight_calls == IF call.op = "analyze_trend_with_ai" THEN call.n ELSE 0

\* history: the call made before the one being made
previous_insight_call ==
  IF call.op = "analyze_trend_with_ai"
    THEN [trend_name |-> trend_keyword, upstream |-> call.upstream, ret |-> ret]
    ELSE None

InitInsight ==
  /\ clock = ClockStart
  /\ RankingIdle
  /\ InsightIdle
  /\ DeployIdle
  /\ DeriveIdle
  /\ AggregateIdle
  /\ FetchIdle

\* time.time() advances between two calls
InsightTick ==
  /\ call.op = "analyze_trend_with_ai"
  /\ call.n < MaxInsightCalls
  /\ \E d \in InsightSteps :
       /\ clock + d <= ClockStart + MaxInsightClock
       /\ clock' = clock + d
  /\ UNCHANGED <<ranking_vars, insight_vars, deploy_vars, derive_vars, aggregate_vars,
                 fetch_vars>>

\* analyze_trend_with_ai(trend_name) when the cache check passes
AnalyzeFromCache ==
  /\ call.op \in {"none", "analyze_trend_with_ai"}
  /\ insight_calls < MaxInsightCalls
  /\ \E trend_name \in InsightTrends :
       /\ analysis_is_cached(trend_name)
       /\ trend_keyword' = trend_name
       /\ call' = [op |-> "analyze_trend_with_ai", n |-> insight_calls + 1,
                   upstream |-> "none", previous |-> previous_insight_call]
       /\ ret' = analysis_cache[analysis_cache_key(trend_name)].data
  /\ UNCHANGED <<clock, ranking_vars, insight_vars, deploy_vars, aggregate_vars,
                 fetch_vars>>

\* an upstream failure whose error result is stored like an answer
AnalyzeUpstream_caching_errors ==
  /\ call.op \in {"none", "analyze_trend_with_ai"}
  /\ insight_calls < MaxInsightCalls
  /\ \E trend_name \in InsightTrends, outcome \in UpstreamOutcomes :
       LET id == openai_calls + 1
           result == CASE outcome = "json" -> parsed_result(id)
                       [] outcome = "text" -> fallback_result(trend_name, id)
                       [] outcome = "raises" -> error_result(trend_name, id)
       IN  /\ ~analysis_is_cached(trend_name)
           /\ openai_calls' = id
           /\ trend_keyword' = trend_name
           /\ call' = [op |-> "analyze_trend_with_ai", n |-> insight_calls + 1,
                       upstream |-> outcome, previous |-> previous_insight_call]
           /\ ret' = result
           /\ analysis_cache' =
                (analysis_cache_key(trend_name) :>
                   [timestamp |-> clock, data |-> result]) @@ analysis_cache
  /\ UNCHANGED <<clock, ranking_vars, deploy_vars, aggregate_vars, fetch_vars>>

\* analyze_trend_with_ai(trend_name) when the cache check fails: OpenAI is
\* called; an answer, parsed or not, is stored and returned, and a failure is
\* turned into an error result that is returned and not stored
AnalyzeUpstream ==
  /\ call.op \in {"none", "analyze_trend_with_ai"}
  /\ insight_calls < MaxInsightCalls
  /\ \E trend_name \in InsightTrends, outcome \in UpstreamOutcomes :
       LET id == openai_calls + 1
           result == CASE outcome = "json" -> parsed_result(id)
                       [] outcome = "text" -> fallback_result(trend_name, id)
                       [] outcome = "raises" -> error_result(trend_name, id)
       IN  /\ ~analysis_is_cached(trend_name)
           /\ openai_calls' = id
           /\ trend_keyword' = trend_name
           /\ call' = [op |-> "analyze_trend_with_ai", n |-> insight_calls + 1,
                       upstream |-> outcome, previous |-> previous_insight_call]
           /\ ret' = result
           /\ analysis_cache' =
                IF outcome = "raises"
                  THEN analysis_cache
                  ELSE (analysis_cache_key(trend_name) :>
                          [timestamp |-> clock, data |-> result]) @@ analysis_cache
  /\ UNCHANGED <<clock, ranking_vars, deploy_vars, aggregate_vars, fetch_vars>>

NextInsight ==
  \/ InsightTick
  \/ AnalyzeFromCache
  \/ AnalyzeUpstream

SpecInsight == InitInsight /\ [][NextInsight]_vars

(***************************************************************************)
(* The analyzer of src/tests/ai: get_top_trends with its cache, and        *)
(* generate_token_details                                                  *)
(***************************************************************************)
InitRanking ==
  /\ clock = ClockStart
  /\ RankingIdle
  /\ InsightIdle
  /\ DeployIdle
  /\ DeriveIdle
  /\ AggregateIdle
  /\ FetchIdle

\* time.time() advances
ClockTick ==
  /\ call.op = "get_top_trends"
  /\ call.n < MaxRankingCalls
  /\ \E d \in ClockSteps :
       /\ clock + d <= ClockStart + MaxClock
       /\ clock' = clock + d
  /\ UNCHANGED <<ranking_vars, insight_vars, deploy_vars, derive_vars, aggregate_vars,
                 fetch_vars>>

\* a cache check that still passes when cache_timeout seconds have gone by
cache_is_valid_inclusive ==
  clock - last_fetch_time <= cache_timeout /\ cache # <<>>

\* current_time - self.last_fetch_time < self.cache_timeout and self.cache
cache_is_valid ==
  clock - last_fetch_time < cache_timeout /\ cache # <<>>

\* how many get_top_trends calls were made
ranking_calls == IF call.op = "get_top_trends" THEN call.n ELSE 0

\* get_top_trends(limit) when the cache check passes: the stored ranking is cut
RankingFromCache ==
  /\ call.op \in {"none", "get_top_trends"}
  /\ ranking_calls < MaxRankingCalls
  /\ cache_is_valid
  /\ \E limit \in RankingLimits :
       /\ call' = [op |-> "get_top_trends", n |-> ranking_calls + 1, limit |-> limit,
                   fetched |-> FALSE, all_trends |-> <<>>]
       /\ ret' = slice_to(cache, limit)
  /\ UNCHANGED <<trend_keyword, clock, ranking_vars, insight_vars, deploy_vars,
                 aggregate_vars, fetch_vars>>

\* get_top_trends(limit) when the cache check fails: the three sources are
\* fetched, their topics scored and ranked, the ranking stored and cut
RankingFetched ==
  /\ call.op \in {"none", "get_top_trends"}
  /\ ranking_calls < MaxRankingCalls
  /\ ~cache_is_valid
  /\ \E limit \in RankingLimits :
     \E twitter \in SourceLists, reddit \in SourceLists, google \in SourceLists :
       LET result == ranking_of(twitter, reddit, google)
       IN  /\ cache' = result
           /\ last_fetch_time' = clock
           /\ fetches' = fetches + 1
           /\ call' = [op |-> "get_top_trends", n |-> ranking_calls + 1, limit |-> limit,
                       fetched |-> TRUE,
                       all_trends |-> [twitter |-> twitter, reddit |-> reddit,
                                       google |-> google]]
           /\ ret' = slice_to(result, limit)
  /\ UNCHANGED <<trend_keyword, clock, insight_vars, deploy_vars, aggregate_vars,
                 fetch_vars>>

\* generate_token_details of src/tests/ai, on a trend name and a trend score
RankingGenerateTokenDetails ==
  /\ call.op = "none"
  /\ \E name \in DetailNames, sc \in DetailScores :
       /\ trend_keyword' = name
       /\ call' = [op |-> "tests_ai_generate_token_details", score |-> sc]
       /\ ret' = tests_ai_generate_token_details(name, sc)
  /\ UNCHANGED <<clock, ranking_vars, insight_vars, deploy_vars, aggregate_vars,
                 fetch_vars>>

NextRanking ==
  \/ ClockTick
  \/ RankingFromCache
  \/ RankingFetched
  \/ RankingGenerateTokenDetails

SpecRanking == InitRanking /\ [][NextRanking]_vars

(***************************************************************************)
(* The source adapters and analyze_trends, called concurrently on one      *)
(* analyzer                                                                *)
(***************************************************************************)
\* __init__: an empty cache, and every platform last updated one day ago
InitFetch ==
  /\ api_keys \in {{}, {"openai"}}
  /\ trend_cache = <<>>
  /\ stored_at = <<>>
  /\ now = 86400
  /\ last_update = [p \in Range(platforms) |-> now - 86400]
  /\ ticks = 0
  /\ th = [c \in Callers |-> IdleCaller]
  /\ DeriveIdle
  /\ AggregateIdle
  /\ ComponentsIdle

\* the calls made on the analyzer so far
RECURSIVE calls_of(_)
calls_of(cs) ==
  IF cs = {} THEN 0
  ELSE LET c == CHOOSE x \in cs : TRUE IN th[c].calls + calls_of(cs \ {c})

calls_made == calls_of(Callers)

\* the upstream calls that have raised
failures_made ==
  Cardinality({<<c, p>> \in Callers \X Range(platforms) : th[c].outcome[p] = "error"})

\* time passes
Tick ==
  /\ ticks < MaxTicks
  /\ \E d \in TickSteps : now' = now + d
  /\ ticks' = ticks + 1
  /\ UNCHANGED <<analyzer_vars, th, derive_vars, aggregate_vars, component_vars>>

\* a caller calls one adapter
CallFetch(c) ==
  /\ th[c].pc = "idle"
  /\ calls_made < MaxCalls
  /\ \E p \in Range(platforms), l \in Locations :
       /\ p # "twitter" => l = 1
       /\ th' = [th EXCEPT ![c] =
                   [IdleCaller EXCEPT !.pc = "check", !.op = "fetch", !.platform = p,
                                      !.location_id = l, !.calls = th[c].calls + 1]]
  /\ UNCHANGED <<analyzer_vars, now, ticks, derive_vars, aggregate_vars, component_vars>>

\* a caller calls analyze_trends, which starts with fetch_twitter_trends()
CallAnalyzeTrends(c) ==
  /\ th[c].pc = "idle"
  /\ calls_made < MaxCalls
  /\ th' = [th EXCEPT ![c] =
              [IdleCaller EXCEPT !.pc = "check", !.op = "analyze_trends",
                                 !.platform = platforms[1], !.location_id = 1,
                                 !.calls = th[c].calls + 1]]
  /\ UNCHANGED <<analyzer_vars, now, ticks, derive_vars, aggregate_vars, component_vars>>

\* the adapter of caller c returns `value`: to the caller, or to analyze_trends,
\* which calls the next adapter or, after the last one, extracts, scores and ranks
returned(c, value, how, age) ==
  LET me == [th[c] EXCEPT !.outcome[th[c].platform] = how,
                          !.age[th[c].platform] = age]
      got == [me.got EXCEPT ![me.platform] = value]
      n == CHOOSE i \in DOMAIN platforms : platforms[i] = me.platform
  IN  IF me.op = "fetch"
        THEN [th EXCEPT ![c] = [me EXCEPT !.pc = "idle", !.ret = value]]
      ELSE IF n < Len(platforms)
        THEN [th EXCEPT ![c] = [me EXCEPT !.pc = "check", !.got = got,
                                          !.platform = platforms[n + 1]]]
      ELSE [th EXCEPT ![c] = [me EXCEPT !.pc = "idle", !.got = got,
                                        !.ret = analyze(got)]]

\* the adapter finds no OpenAI key and returns []
NoApiKey(c) ==
  /\ th[c].pc = "check"
  /\ "openai" \notin api_keys
  /\ th' = returned(c, <<>>, "nokey", 0)
  /\ UNCHANGED <<analyzer_vars, now, ticks, derive_vars, aggregate_vars, component_vars>>

\* the cache check succeeds and the adapter returns the cached list
CacheHit(c) ==
  LET key == cache_key(th[c].platform, th[c].location_id)
  IN  /\ th[c].pc = "check"
      /\ "openai" \in api_keys
      /\ cache_is_fresh(trend_cache, last_update, th[c].platform,
                        th[c].location_id, now)
      /\ th' = returned(c, trend_cache[key], "cache", now - stored_at[key])
      /\ UNCHANGED <<analyzer_vars, now, ticks, derive_vars, aggregate_vars, component_vars>>

\* the cache check fails and the adapter calls upstream
CacheMiss(c) ==
  /\ th[c].pc = "check"
  /\ "openai" \in api_keys
  /\ ~cache_is_fresh(trend_cache, last_update, th[c].platform,
                     th[c].location_id, now)
  /\ th' = [th EXCEPT ![c].pc = "upstream"]
  /\ UNCHANGED <<analyzer_vars, now, ticks, derive_vars, aggregate_vars, component_vars>>

\* an adapter without the except clause: the exception of the upstream call
\* leaves the adapter and the analyze_trends that called it
UpstreamRaises_propagates(c) ==
  /\ th[c].pc = "upstream"
  /\ failures_made < MaxFailures
  /\ th' = [th EXCEPT ![c].pc = "idle", ![c].ret = None,
                      ![c].outcome[th[c].platform] = "error"]
  /\ UNCHANGED <<analyzer_vars, now, ticks, derive_vars, aggregate_vars, component_vars>>

\* the upstream call raises: the adapter logs the error and returns []
UpstreamRaises(c) ==
  /\ th[c].pc = "upstream"
  /\ failures_made < MaxFailures
  /\ th' = returned(c, except_return, "error", 0)
  /\ UNCHANGED <<analyzer_vars, now, ticks, derive_vars, aggregate_vars, component_vars>>

\* the upstream call returns; self.trend_cache[cache_key] = trends
StoreCache(c) ==
  LET key == cache_key(th[c].platform, th[c].location_id)
  IN  /\ th[c].pc = "upstream"
      /\ trend_cache' = (key :> upstream_trends(th[c].platform)) @@ trend_cache
      /\ stored_at' = (key :> now) @@ stored_at
      /\ th' = [th EXCEPT ![c].pc = "store_time"]
      /\ UNCHANGED <<api_keys, last_update, now, ticks, derive_vars, aggregate_vars, component_vars>>

\* self.last_update[platform] = datetime.now(); return trends
StoreTime(c) ==
  /\ th[c].pc = "store_time"
  /\ last_update' = [last_update EXCEPT ![th[c].platform] = now]
  /\ th' = returned(c, upstream_trends(th[c].platform), "upstream", 0)
  /\ UNCHANGED <<api_keys, trend_cache, stored_at, now, ticks, derive_vars,
                 aggregate_vars, component_vars>>

\* a caller in an adapter takes its next step
AdapterStep(c) ==
  \/ NoApiKey(c)
  \/ CacheHit(c)
  \/ CacheMiss(c)
  \/ UpstreamRaises(c)
  \/ StoreCache(c)
  \/ StoreTime(c)

\* callers use the adapters of one analyzer concurrently
NextFetch ==
  \/ Tick
  \/ \E c \in Callers : CallFetch(c) \/ AdapterStep(c)

SpecFetch == InitFetch /\ [][NextFetch]_vars

\* one caller runs analyze_trends on an analyzer, time and again
NextAnalyzeTrends ==
  \/ Tick
  \/ CallAnalyzeTrends(MainCaller)
  \/ AdapterStep(MainCaller)

SpecAnalyzeTrends == InitFetch /\ [][NextAnalyzeTrends]_vars

\* time passes between two calls, less than a day in all
LocationTick ==
  /\ ticks < MaxLocationTicks
  /\ th[MainCaller].pc = "idle"
  /\ \E d \in LocationSteps : now' = now + d
  /\ ticks' = ticks + 1
  /\ UNCHANGED <<analyzer_vars, th, derive_vars, aggregate_vars, component_vars>>

\* a caller calls fetch_twitter_trends(location_id)
CallFetchTwitter(c) ==
  /\ th[c].pc = "idle"
  /\ th[c].calls < MaxLocationCalls
  /\ \E l \in Locations :
       th' = [th EXCEPT ![c] =
                [IdleCaller EXCEPT !.pc = "check", !.op = "fetch",
                                   !.platform = "twitter", !.location_id = l,
                                   !.calls = th[c].calls + 1]]
  /\ UNCHANGED <<analyzer_vars, now, ticks, derive_vars, aggregate_vars, component_vars>>

\* one caller calls fetch_twitter_trends for one location after another, each
\* call ending before the next begins
NextLocations ==
  \/ LocationTick
  \/ CallFetchTwitter(MainCaller)
  \/ AdapterStep(MainCaller)

SpecLocations == InitFetch /\ [][NextLocations]_vars

(***************************************************************************)
(* Properties of classification and derivation (checked under SpecDerive)  *)
(***************************************************************************)
\* the six categories of the taxonomy
Taxonomy == {"crypto", "meme", "tech", "finance", "entertainment", "other"}

\* the documented evaluation order of the classifier
PriorityOrder == <<"crypto", "meme", "tech", "finance", "entertainment">>

\* the topic contains, ignoring case, a keyword of category c
HasKeywordOf(c, topic) ==
  \E e \in Range(categories) :
    /\ e.category = c
    /\ \E k \in Range(e.keywords) : contains(k, lower(topic))

NoCategoryKeyword(topic) == \A c \in Range(PriorityOrder) : ~HasKeywordOf(c, topic)

\* the documented supply multipliers, in tenths
DocumentedMultiplier ==
  [crypto |-> 1, meme |-> 100, tech |-> 5, finance |-> 2,
   entertainment |-> 50, other |-> 10]

\* the documented base values and per-category adjustments, in hundredths of a
\* percent
DocumentedBase ==
  [taxFee |-> 200, liquidityFee |-> 300, marketingFee |-> 200,
   maxWalletSize |-> 200, maxTransactionAmount |-> 100, swapThreshold |-> 10]

DocumentedAdjustment ==
  [crypto |->
     [taxFee |-> 100, liquidityFee |-> 100, marketingFee |-> 100,
      maxWalletSize |-> 0, maxTransactionAmount |-> 50, swapThreshold |-> 5],
   meme |->
     [taxFee |-> 200, liquidityFee |-> 200, marketingFee |-> 300,
      maxWalletSize |-> -50, maxTransactionAmount |-> -25, swapThreshold |-> 10],
   tech |->
     [taxFee |-> 50, liquidityFee |-> 0, marketingFee |-> 100,
      maxWalletSize |-> 100, maxTransactionAmount |-> 50, swapThreshold |-> 2],
   finance |->
     [taxFee |-> 0, liquidityFee |-> -50, marketingFee |-> 50,
      maxWalletSize |-> 150, maxTransactionAmount |-> 75, swapThreshold |-> 3],
   entertainment |->
     [taxFee |-> 150, liquidityFee |-> 150, marketingFee |-> 200,
      maxWalletSize |-> -75, maxTransactionAmount |-> -40, swapThreshold |-> 8],
   other |->
     [taxFee |-> 0, liquidityFee |-> 0, marketingFee |-> 100,
      maxWalletSize |-> 0, maxTransactionAmount |-> 0, swapThreshold |-> 0]]

BitcoinMoon ==
  <<"B","i","t","c","o","i","n"," ","M","o","o","n">>

MemeDefi ==
  <<"m","e","m","e"," ","d","e","f","i">>

Xyz ==
  <<"x","y","z">>

Ab ==
  <<"a","b">>

\* the operations that return a token configuration with a symbol
ReturnsSymbol ==
  call.op \in {"generate_token_config", "suggest_token_configuration",
               "generate_token_details"}

\* C1: for every category of the taxonomy and every topic, the configuration
\* derived for (topic, category) has initialSupply = floor(10^9 * multiplier),
\* with the documented multipliers (supplies in thousands of tokens).
C1_InitialSupply ==
  (call.op = "generate_token_config" /\ call.category \in Taxonomy)
    => ret.initialSupply = (1000000 * DocumentedMultiplier[call.category]) \div 10

C1_Witness ==
  /\ call.op = "generate_token_config"
  /\ call.category = "meme"
  /\ ret.initialSupply = 10000000

\* C2: for every category each of the six fee and limit fields equals its
\* documented base value plus the documented adjustment, and a topic classified
\* crypto ("Bitcoin Moon") gets supply 100,000,000, tax 3.0, liquidity 4.0 and
\* marketing 3.0.
C2_FeesAndLimits ==
  /\ (call.op = "generate_token_config" /\ call.category \in Taxonomy)
       => \A f \in DOMAIN DocumentedBase :
            ret[f] = DocumentedBase[f] + DocumentedAdjustment[call.category][f]
  /\ (call.op = "suggest_token_configuration" /\ HasKeywordOf("crypto", trend_keyword))
       => /\ ret.initialSupply = 100000
          /\ ret.taxFee = 300
          /\ ret.liquidityFee = 400
          /\ ret.marketingFee = 300

C2_Witness ==
  /\ call.op = "suggest_token_configuration"
  /\ trend_keyword = BitcoinMoon
  /\ ret.initialSupply = 100000
  /\ ret.liquidityFee = 400

\* C3: classify returns the first category, in the order crypto, meme, tech,
\* finance, entertainment, that has a keyword occurring in the topic ignoring
\* case; a topic with both a crypto and a meme keyword classifies as crypto.
C3_FirstMatchingCategory ==
  call.op = "get_trend_category"
    => /\ \A i \in DOMAIN PriorityOrder :
            ( /\ HasKeywordOf(PriorityOrder[i], trend_keyword)
              /\ \A j \in 1..(i - 1) : ~HasKeywordOf(PriorityOrder[j], trend_keyword) )
              => ret = PriorityOrder[i]
       /\ ( HasKeywordOf("crypto", trend_keyword) /\ HasKeywordOf("meme", trend_keyword) )
            => ret = "crypto"

C3_Witness ==
  /\ call.op = "get_trend_category"
  /\ trend_keyword = MemeDefi
  /\ ret = "crypto"

C5_ShortTopicMemeSupply ==
  /\ ( /\ call.op = "generate_token_details"
       /\ NoCategoryKeyword(trend_keyword)
       /\ Len(trend_keyword) < 6 )
       => ret.initial_supply = 10000000
  /\ ( /\ call.op = "suggest_token_configuration"
       /\ NoCategoryKeyword(trend_keyword)
       /\ Len(trend_keyword) < 6 )
       => ret.initialSupply = 10000000

\* C7: for every topic the symbol derived from the name derived from the topic
\* has 3 or 4 characters, all of them uppercase ASCII letters.
C7_SymbolShape ==
  ReturnsSymbol
    => /\ Len(ret.symbol) \in {3, 4}
       /\ \A i \in DOMAIN ret.symbol : IsUpper(ret.symbol[i])

(***************************************************************************)
(* Properties of the aggregation (checked under SpecAggregate)             *)
(***************************************************************************)
\* the orders in which the records of one list can be fed in
Reorderings(list) ==
  {[i \in DOMAIN list |-> list[f[i]]] : f \in Permutations(DOMAIN list)}

\* the inputs that hold the records of `input`, reordered inside each platform
Shuffles(input) ==
  {[twitter |-> tw, reddit |-> rd, news |-> nw, google_trends |-> gg] :
     tw \in Reorderings(input.twitter), rd \in Reorderings(input.reddit),
     nw \in Reorderings(input.news), gg \in Reorderings(input.google_trends)}

\* C6: aggregation is independent of input order: every reordering of the
\* records inside each source gives the same ranked list (same keywords, same
\* scores, same positions).
C6_OrderIndependent ==
  analysis # None
    => \A shuffled \in Shuffles(all_trends) :
         analyze(shuffled).top_trends = analysis.top_trends

(***************************************************************************)
(* Properties of the source adapters                                       *)
(***************************************************************************)
\* the caller is past a failed cache check: in the upstream call or between
\* the two stores that follow it
InUpstreamFetch(c) == th[c].pc \in {"upstream", "store_time"}

\* C8: single flight. Callers that fetch the same source while its cache entry
\* is missing or expired collapse to one upstream fetch: no two callers are in
\* an upstream fetch for the same cache key at the same time.
C8_SingleFlight ==
  \A c, d \in Callers :
    (c # d /\ InUpstreamFetch(c) /\ InUpstreamFetch(d))
      => cache_key(th[c].platform, th[c].location_id)
           # cache_key(th[d].platform, th[d].location_id)

\* C9: cache expiry. An adapter returns the cached list only when the entry
\* was stored less than 3600 seconds before the call; after an hour or more,
\* more than a day included, it goes upstream.
C9_CacheExpiry ==
  \A c \in Callers : \A p \in Range(platforms) :
    th[c].outcome[p] = "cache" => th[c].age[p] < 3600

(***************************************************************************)
(* Properties of analyze_trends                                            *)
(***************************************************************************)
\* caller c has run analyze_trends to its end
Analyzed(c) == th[c].pc = "idle" /\ th[c].op = "analyze_trends"

\* the keywords and scores of platform q taken alone
scores_alone(q) ==
  LET alone == [NoTrends EXCEPT ![q] = upstream_trends(q)]
  IN  Range(compute_trend_scores(extract_keywords(alone), alone))

\* the keywords and scores of a result of analyze_trends
scores_in(result) ==
  UNION {Range(result.categorized_trends[c]) : c \in DOMAIN result.categorized_trends}

\* C10: when the upstream call of one source fails, analyze_trends returns a
\* result all the same, the source contributes an empty list to it, and the
\* result holds the lists of the other sources and every keyword of theirs
\* with at least the score it has from that source alone.
C10_FailedSourceIsEmpty ==
  \A c \in Callers : \A p \in Range(platforms) :
    (Analyzed(c) /\ th[c].outcome[p] = "error") =>
      /\ th[c].ret # None
      /\ th[c].ret.raw_data[p] = <<>>
      /\ \A q \in Range(platforms) :
           th[c].outcome[q] \in {"upstream", "cache"} =>
             /\ th[c].ret.raw_data[q] = upstream_trends(q)
             /\ \A e \in scores_alone(q) :
                  \E f \in scores_in(th[c].ret) : f.k = e.k /\ f.v >= e.v

\* analyze_trends has returned after one source failed and another delivered
C10_Witness ==
  \E c \in Callers : \E p, q \in Range(platforms) :
    /\ Analyzed(c)
    /\ th[c].outcome[p] = "error"
    /\ th[c].outcome[q] = "upstream"
    /\ th[c].ret # None

(***************************************************************************)
(* Properties of derivation on invalid input (checked under SpecDerive)    *)
(***************************************************************************)
\* the call returned a token configuration
ReturnsConfiguration == "name" \in DOMAIN ret /\ "symbol" \in DOMAIN ret

\* C11: derivation called with a category that is none of the six, with an
\* empty topic or with a negative score is rejected: it returns no
\* configuration.
C11_InvalidInputRejected ==
  /\ (call.op = "generate_token_config"
        /\ (call.category \notin Taxonomy \/ trend_keyword = <<>>))
       => ~ReturnsConfiguration
  /\ (call.op = "generate_token_details"
        /\ (call.score < 0 \/ trend_keyword = <<>>))
       => ~ReturnsConfiguration

\* C12: derive is deterministic: a second call with the same topic and
\* category returns the configuration the first call returned, name and
\* symbol included.
C12_Deterministic ==
  (call.op = "generate_token_config" /\ call.previous # None)
    => ret = call.previous

(***************************************************************************)
(* Properties of the ranking (checked under SpecAggregate)                 *)
(***************************************************************************)
\* the characters of the keywords, in the order of their code points
CodePointOrder ==
  <<" ", "!", "#", "'">> \o Digits \o UpperLetters \o <<"_">> \o LowerLetters

\* a comes before b in the lexical order of strings
LexLess(a, b) ==
  \E i \in 1..(Len(a) + 1) :
    /\ \A j \in 1..(i - 1) : j <= Len(b) /\ a[j] = b[j]
    /\ \/ i = Len(a) + 1 /\ Len(b) >= i
       \/ /\ i <= Len(a)
          /\ i <= Len(b)
          /\ IndexIn(a[i], CodePointOrder) < IndexIn(b[i], CodePointOrder)

\* C13: the ranked list is in descending order of score, and two keywords of
\* equal score stand in ascending lexical order.
C13_RankedOrder ==
  analysis # None
    => \A i, j \in DOMAIN analysis.top_trends :
         i < j =>
           \/ analysis.top_trends[i].v > analysis.top_trends[j].v
           \/ /\ analysis.top_trends[i].v = analysis.top_trends[j].v
              /\ LexLess(analysis.top_trends[i].k, analysis.top_trends[j].k)

(***************************************************************************)
(* Properties of get_top_trends (checked under SpecTopTrends)              *)
(***************************************************************************)
\* the first n entries of the list stand in non-increasing score order
NonIncreasing(list) ==
  \A i, j \in DOMAIN list : i < j => list[i].v >= list[j].v

\* the entries of the list are topics of `scored`, each once, and no topic left
\* out scores higher than one that is in
HighestOf(list, scored) ==
  /\ \A i \in DOMAIN list : list[i] \in Range(scored)
  /\ \A i, j \in DOMAIN list : i # j => list[i].k # list[j].k
  /\ \A e \in Range(scored) :
       (\A i \in DOMAIN list : list[i].k # e.k)
         => \A i \in DOMAIN list : list[i].v >= e.v

\* what get_top_trends(limit) is to return
TopTrendsContract(limit, list, scored) ==
  /\ Len(list) <= limit
  /\ NonIncreasing(list)
  /\ HighestOf(list, scored)
  /\ Len(scored) >= limit => Len(list) = limit

\* C14: get_top_trends(limit) returns at most limit entries, in non-increasing
\* score order, the highest-scored topics, and exactly limit of them when that
\* many topics exist, for every limit the caller passes.
C14_TopTrends ==
  analysis # None
    => TopTrendsContract(analysis.limit, analysis.top_trends,
                         combined_trends_of(all_trends))

\* the same for the limits that are not negative
TopTrendsNonNegativeLimit ==
  (analysis # None /\ analysis.limit >= 0)
    => TopTrendsContract(analysis.limit, analysis.top_trends,
                         combined_trends_of(all_trends))

(***************************************************************************)
(* Properties of extraction and scoring (checked under SpecAggregate)      *)
(***************************************************************************)
\* the name of a twitter record, lowercase and without '#'
CleanedName(trend) == SelectSeq(lower(dict_get(trend, KeyName, <<>>)), NotHash)

\* the keywords the records of one platform contribute
ContributedBy(p) ==
  {e.k : e \in Range(extract_keywords([NoTrends EXCEPT ![p] = all_trends[p]]))}

\* the platforms whose records contribute the keyword
Contributors(k) == {p \in Range(platforms) : k \in ContributedBy(p)}

\* the platforms whose serialized records contain the keyword as a substring
TextPresence(k) ==
  {p \in Range(platforms) : contains(k, platform_text(all_trends[p]))}

\* the twitter records that contribute a keyword no other platform
\* contributes and no stop word
HashtagOnly ==
  {i \in DOMAIN all_trends.twitter :
     LET k == CleanedName(all_trends.twitter[i])
     IN  /\ k # <<>>
         /\ k \notin Range(stop_words)
         /\ Contributors(k) = {"twitter"}}

\* how many twitter records have the cleaned name k
Hashtags(k) ==
  Cardinality({i \in DOMAIN all_trends.twitter : CleanedName(all_trends.twitter[i]) = k})

HashtagAI ==
  <<StrItem(KeyName, <<"#","A","I">>), IntItem(KeyTweetVolume, 10)>>

NewsAITrendsToday ==
  <<StrItem(KeyTitle, <<"a","i"," ","t","r","e","n","d","s"," ","t","o","d","a","y">>),
    StrItem(KeySource, <<"A","I","N","e","w","s">>)>>

\* the aggregation of [#AI, raw score 10] with the news title "ai trends today"
ScenarioAI ==
  all_trends = [NoTrends EXCEPT !.twitter = <<HashtagAI>>, !.news = <<NewsAITrendsToday>>]

\* C15 as stated: a hashtag record contributes its cleaned lowercase name with
\* weight raw score * 3 and the multiplier counts the sources that contribute
\* the keyword, so #AI with raw score 10 beside the news title "ai trends
\* today" scores 30 * (1 + 1/4).  Scores are in fortieths.
C15_HashtagWeightRawScore ==
  analysis # None =>
    /\ \A i \in HashtagOnly :
         LET k == CleanedName(all_trends.twitter[i])
         IN  Hashtags(k) = 1 =>
               [k |-> k,
                v |-> 30 * dict_get(all_trends.twitter[i], KeyTweetVolume, 1)
                        * (Len(platforms) + Cardinality(Contributors(k)))]
                 \in scores_in(analysis)
    /\ ScenarioAI => [k |-> <<"a","i">>, v |-> 300 * 5] \in scores_in(analysis)

\* C15, amended: a hashtag record contributes its cleaned lowercase name with
\* weight 3 whatever its raw score, and the multiplier counts every source
\* whose serialized records contain the keyword as a substring, so #AI beside
\* the news title "ai trends today" scores 3 * (1 + 2/4) = 4.5.
C15_HashtagWeight ==
  analysis # None =>
    /\ \A i \in HashtagOnly :
         LET k == CleanedName(all_trends.twitter[i])
         IN  [k |-> k,
              v |-> 30 * Hashtags(k)
                      * (Len(platforms) + Cardinality(TextPresence(k)))]
               \in scores_in(analysis)
    /\ ScenarioAI => [k |-> <<"a","i">>, v |-> 30 * 6] \in scores_in(analysis)

C15_Witness ==
  /\ analysis # None
  /\ ScenarioAI
  /\ 1 \in HashtagOnly
  /\ TextPresence(<<"a","i">>) = {"twitter", "news"}

(***************************************************************************)
(* Properties of the title tokenizer (checked under SpecAnalyzeTrends)     *)
(***************************************************************************)
\* the keywords the reddit and news titles of the fetched lists contribute
TitleKeywords(raw) ==
  {e.k : e \in Range(extract_keywords(
                       [NoTrends EXCEPT !.reddit = raw.reddit, !.news = raw.news]))}

\* the keywords the twitter names and google terms of the fetched lists are
DirectKeywords(raw) ==
  {CleanedName(raw.twitter[i]) : i \in DOMAIN raw.twitter}
    \cup {lower(dict_get(raw.google_trends[i], KeyTerm, <<>>)) : i \in DOMAIN raw.google_trends}

\* the lists in which the only record is a news record with this title
OnlyNewsTitle(title) ==
  [NoTrends EXCEPT !.news = << <<StrItem(KeyTitle, title)>> >>]

\* C16: the tokenizer of reddit and news titles contributes no keyword for a
\* token of 3 or fewer letters; a keyword that short in the scores comes from
\* a twitter name or a google term, and a title that is just "ai" (or made of
\* such tokens, "top nft") adds nothing.
C16_ShortTokensDropped ==
  /\ \A c \in Callers :
       (Analyzed(c) /\ th[c].ret # None) =>
         /\ \A k \in TitleKeywords(th[c].ret.raw_data) : Len(k) > 3
         /\ \A e \in scores_in(th[c].ret) :
              Len(e.k) <= 3 => e.k \in DirectKeywords(th[c].ret.raw_data)
  /\ extract_keywords(OnlyNewsTitle(<<"a","i">>)) = <<>>
  /\ extract_keywords(OnlyNewsTitle(<<"t","o","p"," ","n","f","t">>)) = <<>>

\* a result computed from a reddit title with the 3-letter token "new"
C16_Witness ==
  \E c \in Callers :
    /\ Analyzed(c)
    /\ th[c].ret # None
    /\ th[c].ret.raw_data.reddit # <<>>
    /\ <<"n","e","w">> \in
         Range(findall_words(lower(dict_get(th[c].ret.raw_data.reddit[1], KeyName, <<>>))))
    /\ TitleKeywords(th[c].ret.raw_data) # {}

(***************************************************************************)
(* Properties of the stop-word filter                                      *)
(***************************************************************************)
\* C17: no keyword of the stop-word list appears in the scores that are
\* returned, whatever source contributed it (checked under SpecTopTrends, on
\* what get_top_trends returns).
C17_NoStopWords ==
  analysis # None =>
    \A i \in DOMAIN analysis.top_trends :
      analysis.top_trends[i].k \notin Range(stop_words)

\* the same on what analyze_trends returns (checked under SpecAggregate)
NoStopWordsAnalyzed ==
  analysis # None =>
    \A e \in scores_in(analysis) \cup Range(analysis.top_trends) :
      e.k \notin Range(stop_words)

\* analyze_trends ran on lists in which a stop word is a keyword
StopWordExtracted ==
  /\ analysis # None
  /\ \E e \in Range(extract_keywords(all_trends)) : e.k \in Range(stop_words)

(***************************************************************************)
(* Properties of the classifier and of the derived name (SpecDerive)       *)
(***************************************************************************)
\* C18: classify is total: for every topic string, the empty one included, it
\* returns one member of {crypto, meme, tech, finance, entertainment, other};
\* there is no unclassifiable outcome and no error.
C18_ClassifyTotal ==
  call.op = "get_trend_category" => ret \in Taxonomy

\* the classifier ran on a topic without any category keyword: the empty one
C18_Witness ==
  /\ call.op = "get_trend_category"
  /\ trend_keyword = <<>>
  /\ ret = "other"

\* the operations that derive a token name from the topic
NamingOps ==
  {"generate_token_config", "suggest_token_configuration", "generate_token_details"}

IsAlnum(c) == IsLower(c) \/ IsUpper(c) \/ IsDigit(c)

\* the positions of the string at which a word starts
WordStarts(s) == {i \in DOMAIN s : ~IsSpace(s[i]) /\ (i = 1 \/ IsSpace(s[i - 1]))}

\* base is the topic with the non-alphanumeric characters removed and each
\* word capitalised: the same letters and digits in the same order, the same
\* number of words, single spaces between the words and none around them, an
\* upper-case letter only at the start of a word
IsCleanedCapitalised(base, topic) ==
  /\ \A i \in DOMAIN base : IsAlnum(base[i]) \/ base[i] = " "
  /\ lower(SelectSeq(base, IsAlnum)) = lower(SelectSeq(topic, IsAlnum))
  /\ Cardinality(WordStarts(base))
       = Cardinality(WordStarts(SelectSeq(topic, IsAlnumOrSpace)))
  /\ \A i \in DOMAIN base :
       base[i] = " " => i \in 2..(Len(base) - 1) /\ base[i + 1] # " "
  /\ \A i \in DOMAIN base :
       IF i \in WordStarts(base) THEN ~IsLower(base[i]) ELSE ~IsUpper(base[i])

\* the name itself, and the name without a final " Coin", " Token", ...
NameBases(name) ==
  {name} \cup
  {SubSeq(name, 1, Len(name) - Len(sfx) - 1) :
     sfx \in {x \in Range(suffixes) :
                /\ Len(name) > Len(x)
                /\ SubSeq(name, Len(name) - Len(x), Len(name)) = <<" ">> \o x}}

C19_NoSuffixReached ==
  /\ call.op \in NamingOps
  /\ trend_keyword = <<"S","m","a","r","t">>
  /\ ret.name = trend_keyword

(***************************************************************************)
(* Properties of the archetype classifier (SpecDerive)                     *)
(***************************************************************************)
HasMemeKeyword(name) == \E k \in Range(meme_keywords) : contains(k, lower(name))

HasUtilityKeyword(name) == \E k \in Range(utility_keywords) : contains(k, lower(name))

DogeMoon ==
  <<"D","o","g","e"," ","M","o","o","n">>

SmartContractPlatform ==
  <<"S","m","a","r","t"," ","C","o","n","t","r","a","c","t"," ","P","l","a","t","f","o","r","m">>

C20_FallbackReached ==
  /\ call.op = "classify_trend_type"
  /\ trend_keyword \in {<<"a","b"," ","a","b">>, <<"x","y","z"," ","a","b">>}
  /\ ~HasUtilityKeyword(trend_keyword) /\ ~HasMemeKeyword(trend_keyword)

(***************************************************************************)
(* Further properties of derivation and classification (SpecDerive)        *)
(***************************************************************************)
\* C21: for every trend name, the name that generate_token_details returns
\* contains the trend name exactly as it was given.
C21_NameContainsTrendName ==
  call.op = "generate_token_details" => contains(trend_keyword, ret.name)

\* the numeric fields of a configuration
NumericFields ==
  {"initialSupply", "taxFee", "liquidityFee", "marketingFee", "maxWalletSize",
   "maxTransactionAmount", "swapThreshold"}

\* C23: derivation never fails on a non-empty topic, one made only of
\* punctuation or of a single character included: for every category the
\* name, the symbol and all numeric fields are produced and nothing is raised.
C23_NeverFails ==
  (call.op \in {"generate_token_config", "suggest_token_configuration"}
     /\ trend_keyword # <<>>)
    => /\ NumericFields \cup {"name", "symbol"} \subseteq DOMAIN ret
       /\ ret.name # <<>>
       /\ ret.symbol # IndexError
       /\ ret.symbol # <<>>
       /\ \A f \in NumericFields : ret[f] \in Int

\* a configuration derived from a topic made only of punctuation
C23_Witness ==
  /\ call.op = "generate_token_config"
  /\ trend_keyword = <<"!","!">>
  /\ ret.symbol \in {upper(Prefix(sfx, 4)) : sfx \in Range(suffixes)}

C22_SupplyPositive ==
  call.op = "tests_ai_generate_token_details"
    => ret.initial_supply \in Int /\ ret.initial_supply > 0

\* the same for generate_token_details of src/ai (checked under SpecDerive)
SupplyPositiveDerived ==
  call.op = "generate_token_details"
    => ret.initial_supply \in Int /\ ret.initial_supply > 0

\* the score a source list gives the topic, 0 when it does not report it
SourceScore(list, name) ==
  LET hits == {i \in DOMAIN list : list[i][1] = name}
  IN  IF hits = {} THEN 0 ELSE list[CHOOSE i \in hits : TRUE][2]

\* the topic is in the list with a score above that of every other topic
Leads(list, name) ==
  /\ \E i \in DOMAIN list : list[i][1] = name
  /\ \A i \in DOMAIN list : list[i][1] # name => list[i][2] < SourceScore(list, name)

\* the sum over the sources of source score times source weight, for the
\* lists a call fetched, in hundred-thousandths
ExactSum(fetched, name) ==
  40 * SourceScore(fetched.twitter, name)
    + 35 * SourceScore(fetched.reddit, name)
    + 25 * SourceScore(fetched.google, name)

\* the topics the fetched lists report
Reported(fetched) ==
  UNION {{fetched[src][i][1] : i \in DOMAIN fetched[src]} : src \in DOMAIN fetched}

\* a topic leads in each of the three sources
LeadsEverywhere(fetched, name) ==
  /\ Leads(fetched.twitter, name)
  /\ Leads(fetched.reddit, name)
  /\ Leads(fetched.google, name)

RankingCalled == call'.op = "get_top_trends" /\ call' # call

\* C26: once a non-empty ranking is stored, a get_top_trends call made less
\* than cache_timeout seconds after it was stored fetches no source and returns
\* the first limit entries of the stored ranking, whatever its limit; a call
\* made cache_timeout seconds or more after fetches and replaces the ranking.
C26_CacheWindow ==
  [][ (RankingCalled /\ cache # <<>>) =>
        /\ clock - last_fetch_time < cache_timeout =>
             /\ fetches' = fetches
             /\ cache' = cache
             /\ last_fetch_time' = last_fetch_time
             /\ ret' = Prefix(cache, call'.limit)
        /\ clock - last_fetch_time >= cache_timeout =>
             /\ fetches' = fetches + 1
             /\ call'.fetched
             /\ cache' = ranking_of(call'.all_trends.twitter, call'.all_trends.reddit,
                                    call'.all_trends.google)
             /\ last_fetch_time' = clock
             /\ ret' = Prefix(cache', call'.limit)
    ]_vars

\* three calls: the second, 300 seconds after the first, fetched again; the
\* third, 299 seconds after the second, is served the first entry of the two
\* that are stored
C26_Witness ==
  /\ call.op = "get_top_trends"
  /\ call.n = 3
  /\ ~call.fetched
  /\ fetches = 2
  /\ clock - last_fetch_time = 299
  /\ Len(cache) = 2
  /\ ret = <<cache[1]>>

\* a call of analyze_trend_with_ai is being made in this step
InsightCalled ==
  /\ call'.op = "analyze_trend_with_ai"
  /\ call'.n = insight_calls + 1

\* C27: analyze_trend_with_ai writes its cache only in a call whose upstream
\* call succeeded; a call whose upstream call raises returns the error result
\* and leaves the cache as it was, and the call after it for the same trend
\* calls upstream again and does not return that error result
C27_CacheOnlyAfterSuccess ==
  [][InsightCalled =>
       /\ analysis_cache' # analysis_cache =>
            /\ call'.upstream \in {"json", "text"}
            /\ openai_calls' = openai_calls + 1
       /\ call'.upstream = "raises" =>
            /\ ret' = error_result(trend_keyword', openai_calls')
            /\ analysis_cache' = analysis_cache
       /\ (/\ call.op = "analyze_trend_with_ai"
           /\ call.upstream = "raises"
           /\ trend_keyword' = trend_keyword) =>
            /\ openai_calls' = openai_calls + 1
            /\ ret' # ret]_vars

\* an upstream failure for a trend whose expired answer is in the cache has
\* been followed by a call for the same trend that reached upstream and got an
\* answer
C27_Witness ==
  /\ call.op = "analyze_trend_with_ai"
  /\ call.n = 3
  /\ call.previous # None
  /\ call.previous.trend_name = trend_keyword
  /\ call.previous.upstream = "raises"
  /\ call.previous.ret = error_result(trend_keyword, 2)
  /\ call.upstream = "json"
  /\ openai_calls = 3
  /\ ret = parsed_result(3)
  /\ analysis_cache_key(trend_keyword) \in DOMAIN analysis_cache
  /\ analysis_cache[analysis_cache_key(trend_keyword)].data = parsed_result(3)
  /\ analysis_cache[analysis_cache_key(trend_keyword)].timestamp = ClockStart + 3600

(***************************************************************************)
(* Properties of fetch_twitter_trends called for several locations         *)
(* (checked under SpecLocations)                                           *)
(***************************************************************************)
\* C28: in every sequence of fetch_twitter_trends calls with different
\* location_id values, a call for a location does not return a cached list of
\* that location that was stored 3600 seconds or more before the call.
C28_PerLocationExpiry ==
  \A l \in Locations :
    (/\ th[MainCaller].op = "fetch"
     /\ th[MainCaller].platform = "twitter"
     /\ th[MainCaller].location_id = l
     /\ th[MainCaller].outcome["twitter"] = "cache")
      => th[MainCaller].age["twitter"] < 3600

\* with one location, and less than a day gone by, the cached list returned
\* is less than 3600 seconds old
OneLocationExpiry ==
  (/\ th[MainCaller].outcome["twitter"] = "cache"
   /\ \A l \in Locations \ {th[MainCaller].location_id} :
         cache_key("twitter", l) \notin DOMAIN trend_cache)
    => th[MainCaller].age["twitter"] < 3600

(***************************************************************************)
(* Properties of deploy_token (checked under SpecDeploy)                   *)
(***************************************************************************)
\* thread r begins a request for the token in this step
RequestsToken(r) ==
  /\ req[r].pc = "idle"
  /\ req'[r].calls = req[r].calls + 1
  /\ req'[r].body = "token"

\* thread r ends a request with a failure in this step
Fails(r) == req[r].pc \in {"deploy", "commit"} /\ req'[r].status = 500

GuardAndRollback ==
  [][\A r \in Requests :
       /\ (RequestsToken(r) /\ is_deployed) => req'[r].status = 400
       /\ Fails(r) => is_deployed' = is_deployed]_vars

\* one request at a time and every commit going through: one deployment at
\* most
DeployedOnceInTurn == deployments <= 1

====
